---- MODULE Spec2Model ----
(***************************************************************************)
(* SEOAnalysis: the scoring and recommendation engine of SEO/models.py,    *)
(* as a state machine over one analysis record.                            *)
(*                                                                         *)
(* Representation of Python values:                                        *)
(*   - a str is a sequence of one-character strings;                       *)
(*   - an attribute that may hold None or a value of another type is a     *)
(*     tagged record: [t |-> "none"], [t |-> "str", v |-> s],              *)
(*     [t |-> "int", n |-> k], [t |-> "num", v |-> k];                     *)
(*   - a float computed by the engine is an IEEE-754 binary64 value,       *)
(*     sg * m * 2^e, with every operation rounded to nearest-even as       *)
(*     CPython does, so that int(score) truncates what the code truncates; *)
(*   - keyword_density is kept as its count of hundredths (round(x, 2));   *)
(*   - cumulative_layout_shift is in thousandths, page_load_time in        *)
(*     milliseconds, clock values in hours.                                *)
(***************************************************************************)
EXTENDS Integers, Sequences, FiniteSets, TLC

VARIABLES rec, pc, runs, edits, now, out
vars == <<rec, pc, runs, edits, now, out>>

\* ---- bounds of the model ----
MaxEdits == 1
MaxRuns == 2

\* ---- Python str operations ----
\* A string is a sequence of characters. A character is written as itself when it is a
\* printable character up to U+00FF, as "\t", "\n", "\f", "\r" for those four, and by its
\* code point otherwise ("U+00A0", "U+0130", "U+1F600").
\* the characters U+0000..U+00FF as they are written
Chars ==
  <<
    "U+0000", "U+0001", "U+0002", "U+0003", "U+0004", "U+0005", "U+0006", "U+0007", "U+0008",
    "\t", "\n", "U+000B", "\f", "\r", "U+000E", "U+000F", "U+0010", "U+0011", "U+0012",
    "U+0013", "U+0014", "U+0015", "U+0016", "U+0017", "U+0018", "U+0019", "U+001A", "U+001B",
    "U+001C", "U+001D", "U+001E", "U+001F", " ", "!", "\"", "#", "$", "%", "&", "'", "(", ")",
    "*", "+", ",", "-", ".", "/", "0", "1", "2", "3", "4", "5", "6", "7", "8", "9", ":", ";",
    "<", "=", ">", "?", "@", "A", "B", "C", "D", "E", "F", "G", "H", "I", "J", "K", "L", "M",
    "N", "O", "P", "Q", "R", "S", "T", "U", "V", "W", "X", "Y", "Z", "[", "\\", "]", "^", "_",
    "U+0060", "a", "b", "c", "d", "e", "f", "g", "h", "i", "j", "k", "l", "m", "n", "o", "p",
    "q", "r", "s", "t", "u", "v", "w", "x", "y", "z", "{", "|", "}", "~", "U+007F", "U+0080",
    "U+0081", "U+0082", "U+0083", "U+0084", "U+0085", "U+0086", "U+0087", "U+0088", "U+0089",
    "U+008A", "U+008B", "U+008C", "U+008D", "U+008E", "U+008F", "U+0090", "U+0091", "U+0092",
    "U+0093", "U+0094", "U+0095", "U+0096", "U+0097", "U+0098", "U+0099", "U+009A", "U+009B",
    "U+009C", "U+009D", "U+009E", "U+009F", "U+00A0", "¡", "¢", "£", "¤", "¥", "¦", "§", "¨",
    "©", "ª", "«", "¬", "U+00AD", "®", "¯", "°", "±", "²", "³", "´", "µ", "¶", "·", "¸", "¹",
    "º", "»", "¼", "½", "¾", "¿", "À", "Á", "Â", "Ã", "Ä", "Å", "Æ", "Ç", "È", "É", "Ê", "Ë",
    "Ì", "Í", "Î", "Ï", "Ð", "Ñ", "Ò", "Ó", "Ô", "Õ", "Ö", "×", "Ø", "Ù", "Ú", "Û", "Ü", "Ý",
    "Þ", "ß", "à", "á", "â", "ã", "ä", "å", "æ", "ç", "è", "é", "ê", "ë", "ì", "í", "î", "ï",
    "ð", "ñ", "ò", "ó", "ô", "õ", "ö", "÷", "ø", "ù", "ú", "û", "ü", "ý", "þ", "ÿ"
  >>
Inverse(chars) ==
    [c \in {chars[k] : k \in DOMAIN chars} |-> (CHOOSE k \in DOMAIN chars : chars[k] = c) - 1]
\* ord(c) of the characters up to U+00FF
Ord == Inverse(Chars)
HexDigits == "0123456789ABCDEF"
RECURSIVE ParseHex(_, _)
ParseHex(digits, n) ==
    IF digits = "" THEN n
    ELSE ParseHex(Tail(digits),
                  16 * n + (CHOOSE d \in 0..15 : SubSeq(HexDigits, d + 1, d + 1) = Head(digits)))
CodeIn(c, ord) == IF c \in DOMAIN ord THEN ord[c] ELSE ParseHex(SubSeq(c, 3, Len(c)), 0)
\* ord(c)
CodePoint(c) == CodeIn(c, Ord)
RECURSIVE Hex(_, _)
Hex(n, digits) ==
    IF n = 0 /\ digits <= 0 THEN ""
    ELSE Hex(n \div 16, digits - 1) \o SubSeq(HexDigits, (n % 16) + 1, (n % 16) + 1)
\* chr(n)
Chr(n) == IF n < 256 THEN Chars[n + 1] ELSE "U+" \o Hex(n, 4)

\* str.lower, character by character: each four numbers first, last, step, delta stand
\* for the characters first, first + step, ..., last, whose lower case lies delta further on
LowerRuns ==
  <<
    65, 90, 1, 32, 192, 214, 1, 32, 216, 222, 1, 32, 256, 302, 2, 1, 306, 310, 2, 1, 313, 327,
    2, 1, 330, 374, 2, 1, 376, 376, 1, -121, 377, 381, 2, 1, 385, 385, 1, 210, 386, 388, 2, 1,
    390, 390, 1, 206, 391, 391, 1, 1, 393, 394, 1, 205, 395, 395, 1, 1, 398, 398, 1, 79, 399,
    399, 1, 202, 400, 400, 1, 203, 401, 401, 1, 1, 403, 403, 1, 205, 404, 404, 1, 207, 406, 406,
    1, 211, 407, 407, 1, 209, 408, 408, 1, 1, 412, 412, 1, 211, 413, 413, 1, 213, 415, 415, 1,
    214, 416, 420, 2, 1, 422, 422, 1, 218, 423, 423, 1, 1, 425, 425, 1, 218, 428, 428, 1, 1,
    430, 430, 1, 218, 431, 431, 1, 1, 433, 434, 1, 217, 435, 437, 2, 1, 439, 439, 1, 219, 440,
    440, 1, 1, 444, 444, 1, 1, 452, 452, 1, 2, 453, 453, 1, 1, 455, 455, 1, 2, 456, 456, 1, 1,
    458, 458, 1, 2, 459, 475, 2, 1, 478, 494, 2, 1, 497, 497, 1, 2, 498, 500, 2, 1, 502, 502, 1,
    -97, 503, 503, 1, -56, 504, 542, 2, 1, 544, 544, 1, -130, 546, 562, 2, 1, 570, 570, 1,
    10795, 571, 571, 1, 1, 573, 573, 1, -163, 574, 574, 1, 10792, 577, 577, 1, 1, 579, 579, 1,
    -195, 580, 580, 1, 69, 581, 581, 1, 71, 582, 590, 2, 1, 880, 882, 2, 1, 886, 886, 1, 1, 895,
    895, 1, 116, 902, 902, 1, 38, 904, 906, 1, 37, 908, 908, 1, 64, 910, 911, 1, 63, 913, 929,
    1, 32, 931, 939, 1, 32, 975, 975, 1, 8, 984, 1006, 2, 1, 1012, 1012, 1, -60, 1015, 1015, 1,
    1, 1017, 1017, 1, -7, 1018, 1018, 1, 1, 1021, 1023, 1, -130, 1024, 1039, 1, 80, 1040, 1071,
    1, 32, 1120, 1152, 2, 1, 1162, 1214, 2, 1, 1216, 1216, 1, 15, 1217, 1229, 2, 1, 1232, 1326,
    2, 1, 1329, 1366, 1, 48, 4256, 4293, 1, 7264, 4295, 4295, 1, 7264, 4301, 4301, 1, 7264,
    5024, 5103, 1, 38864, 5104, 5109, 1, 8, 7312, 7354, 1, -3008, 7357, 7359, 1, -3008, 7680,
    7828, 2, 1, 7838, 7838, 1, -7615, 7840, 7934, 2, 1, 7944, 7951, 1, -8, 7960, 7965, 1, -8,
    7976, 7983, 1, -8, 7992, 7999, 1, -8, 8008, 8013, 1, -8, 8025, 8031, 2, -8, 8040, 8047, 1,
    -8, 8072, 8079, 1, -8, 8088, 8095, 1, -8, 8104, 8111, 1, -8, 8120, 8121, 1, -8, 8122, 8123,
    1, -74, 8124, 8124, 1, -9, 8136, 8139, 1, -86, 8140, 8140, 1, -9, 8152, 8153, 1, -8, 8154,
    8155, 1, -100, 8168, 8169, 1, -8, 8170, 8171, 1, -112, 8172, 8172, 1, -7, 8184, 8185, 1,
    -128, 8186, 8187, 1, -126, 8188, 8188, 1, -9, 8486, 8486, 1, -7517, 8490, 8490, 1, -8383,
    8491, 8491, 1, -8262, 8498, 8498, 1, 28, 8544, 8559, 1, 16, 8579, 8579, 1, 1, 9398, 9423, 1,
    26, 11264, 11311, 1, 48, 11360, 11360, 1, 1, 11362, 11362, 1, -10743, 11363, 11363, 1,
    -3814, 11364, 11364, 1, -10727, 11367, 11371, 2, 1, 11373, 11373, 1, -10780, 11374, 11374,
    1, -10749, 11375, 11375, 1, -10783, 11376, 11376, 1, -10782, 11378, 11378, 1, 1, 11381,
    11381, 1, 1, 11390, 11391, 1, -10815, 11392, 11490, 2, 1, 11499, 11501, 2, 1, 11506, 11506,
    1, 1, 42560, 42604, 2, 1, 42624, 42650, 2, 1, 42786, 42798, 2, 1, 42802, 42862, 2, 1, 42873,
    42875, 2, 1, 42877, 42877, 1, -35332, 42878, 42886, 2, 1, 42891, 42891, 1, 1, 42893, 42893,
    1, -42280, 42896, 42898, 2, 1, 42902, 42920, 2, 1, 42922, 42922, 1, -42308, 42923, 42923, 1,
    -42319, 42924, 42924, 1, -42315, 42925, 42925, 1, -42305, 42926, 42926, 1, -42308, 42928,
    42928, 1, -42258, 42929, 42929, 1, -42282, 42930, 42930, 1, -42261, 42931, 42931, 1, 928,
    42932, 42946, 2, 1, 42948, 42948, 1, -48, 42949, 42949, 1, -42307, 42950, 42950, 1, -35384,
    42951, 42953, 2, 1, 42960, 42960, 1, 1, 42966, 42968, 2, 1, 42997, 42997, 1, 1, 65313,
    65338, 1, 32, 66560, 66599, 1, 40, 66736, 66771, 1, 40, 66928, 66938, 1, 39, 66940, 66954,
    1, 39, 66956, 66962, 1, 39, 66964, 66965, 1, 39, 68736, 68786, 1, 64, 71840, 71871, 1, 32,
    93760, 93791, 1, 32, 125184, 125217, 1, 34
  >>
RunsOf(n, table) ==
    {k \in 1..(Len(table) \div 4) :
        /\ table[4 * k - 3] <= n /\ n <= table[4 * k - 2]
        /\ (n - table[4 * k - 3]) % table[4 * k - 1] = 0}
Shifted(n, table, found) ==
    IF found = {} THEN n ELSE n + table[4 * (CHOOSE k \in found : TRUE)]
LowerIn(n, table) == Shifted(n, table, RunsOf(n, table))
\* U+0130 is the one character whose lower case has two characters
LowerCodes(n) == IF n = 304 THEN <<105, 775>> ELSE <<LowerIn(n, LowerRuns)>>
\* the characters of codes; a character that has no other lower case stays as it is written
SpellLower(c, n, codes) ==
    IF codes = <<n>> THEN <<c>> ELSE [i \in 1..Len(codes) |-> Chr(codes[i])]
LowerOfCode(c, n) == SpellLower(c, n, LowerCodes(n))
\* chr(c).lower()
LowerChar(c) == LowerOfCode(c, CodePoint(c))
LowerTable(ord) == [c \in DOMAIN ord |-> LowerOfCode(c, ord[c])[1]]
\* the lower case of the characters up to U+00FF
LowerOf == LowerTable(Ord)
\* n lies in one of the ranges first, last, first, last, ...
InRanges(n, ranges) ==
    \E i \in 1..(Len(ranges) \div 2) : ranges[2 * i - 1] <= n /\ n <= ranges[2 * i]
\* the cased characters (Unicode property Cased)
CasedRanges ==
  <<
    65, 90, 97, 122, 170, 170, 181, 181, 186, 186, 192, 214, 216, 246, 248, 442, 444, 447, 452,
    659, 661, 696, 704, 705, 736, 740, 837, 837, 880, 883, 886, 887, 890, 893, 895, 895, 902,
    902, 904, 906, 908, 908, 910, 929, 931, 1013, 1015, 1153, 1162, 1327, 1329, 1366, 1376,
    1416, 4256, 4293, 4295, 4295, 4301, 4301, 4304, 4346, 4349, 4351, 5024, 5109, 5112, 5117,
    7296, 7304, 7312, 7354, 7357, 7359, 7424, 7615, 7680, 7957, 7960, 7965, 7968, 8005, 8008,
    8013, 8016, 8023, 8025, 8025, 8027, 8027, 8029, 8029, 8031, 8061, 8064, 8116, 8118, 8124,
    8126, 8126, 8130, 8132, 8134, 8140, 8144, 8147, 8150, 8155, 8160, 8172, 8178, 8180, 8182,
    8188, 8305, 8305, 8319, 8319, 8336, 8348, 8450, 8450, 8455, 8455, 8458, 8467, 8469, 8469,
    8473, 8477, 8484, 8484, 8486, 8486, 8488, 8488, 8490, 8493, 8495, 8500, 8505, 8505, 8508,
    8511, 8517, 8521, 8526, 8526, 8544, 8575, 8579, 8580, 9398, 9449, 11264, 11492, 11499,
    11502, 11506, 11507, 11520, 11557, 11559, 11559, 11565, 11565, 42560, 42605, 42624, 42653,
    42786, 42887, 42891, 42894, 42896, 42954, 42960, 42961, 42963, 42963, 42965, 42969, 42997,
    42998, 43000, 43002, 43824, 43866, 43868, 43880, 43888, 43967, 64256, 64262, 64275, 64279,
    65313, 65338, 65345, 65370, 66560, 66639, 66736, 66771, 66776, 66811, 66928, 66938, 66940,
    66954, 66956, 66962, 66964, 66965, 66967, 66977, 66979, 66993, 66995, 67001, 67003, 67004,
    67456, 67456, 67459, 67461, 67463, 67504, 67506, 67514, 68736, 68786, 68800, 68850, 71840,
    71903, 93760, 93823, 119808, 119892, 119894, 119964, 119966, 119967, 119970, 119970, 119973,
    119974, 119977, 119980, 119982, 119993, 119995, 119995, 119997, 120003, 120005, 120069,
    120071, 120074, 120077, 120084, 120086, 120092, 120094, 120121, 120123, 120126, 120128,
    120132, 120134, 120134, 120138, 120144, 120146, 120485, 120488, 120512, 120514, 120538,
    120540, 120570, 120572, 120596, 120598, 120628, 120630, 120654, 120656, 120686, 120688,
    120712, 120714, 120744, 120746, 120770, 120772, 120779, 122624, 122633, 122635, 122654,
    125184, 125251, 127280, 127305, 127312, 127337, 127344, 127369
  >>
\* the case-ignorable characters (Unicode property Case_Ignorable)
CaseIgnorableRanges ==
  <<
    39, 39, 46, 46, 58, 58, 94, 94, 96, 96, 168, 168, 173, 173, 175, 175, 180, 180, 183, 184,
    688, 879, 884, 885, 890, 890, 900, 901, 903, 903, 1155, 1161, 1369, 1369, 1375, 1375, 1425,
    1469, 1471, 1471, 1473, 1474, 1476, 1477, 1479, 1479, 1524, 1524, 1536, 1541, 1552, 1562,
    1564, 1564, 1600, 1600, 1611, 1631, 1648, 1648, 1750, 1757, 1759, 1768, 1770, 1773, 1807,
    1807, 1809, 1809, 1840, 1866, 1958, 1968, 2027, 2037, 2042, 2042, 2045, 2045, 2070, 2093,
    2137, 2139, 2184, 2184, 2192, 2193, 2200, 2207, 2249, 2306, 2362, 2362, 2364, 2364, 2369,
    2376, 2381, 2381, 2385, 2391, 2402, 2403, 2417, 2417, 2433, 2433, 2492, 2492, 2497, 2500,
    2509, 2509, 2530, 2531, 2558, 2558, 2561, 2562, 2620, 2620, 2625, 2626, 2631, 2632, 2635,
    2637, 2641, 2641, 2672, 2673, 2677, 2677, 2689, 2690, 2748, 2748, 2753, 2757, 2759, 2760,
    2765, 2765, 2786, 2787, 2810, 2815, 2817, 2817, 2876, 2876, 2879, 2879, 2881, 2884, 2893,
    2893, 2901, 2902, 2914, 2915, 2946, 2946, 3008, 3008, 3021, 3021, 3072, 3072, 3076, 3076,
    3132, 3132, 3134, 3136, 3142, 3144, 3146, 3149, 3157, 3158, 3170, 3171, 3201, 3201, 3260,
    3260, 3263, 3263, 3270, 3270, 3276, 3277, 3298, 3299, 3328, 3329, 3387, 3388, 3393, 3396,
    3405, 3405, 3426, 3427, 3457, 3457, 3530, 3530, 3538, 3540, 3542, 3542, 3633, 3633, 3636,
    3642, 3654, 3662, 3761, 3761, 3764, 3772, 3782, 3782, 3784, 3789, 3864, 3865, 3893, 3893,
    3895, 3895, 3897, 3897, 3953, 3966, 3968, 3972, 3974, 3975, 3981, 3991, 3993, 4028, 4038,
    4038, 4141, 4144, 4146, 4151, 4153, 4154, 4157, 4158, 4184, 4185, 4190, 4192, 4209, 4212,
    4226, 4226, 4229, 4230, 4237, 4237, 4253, 4253, 4348, 4348, 4957, 4959, 5906, 5908, 5938,
    5939, 5970, 5971, 6002, 6003, 6068, 6069, 6071, 6077, 6086, 6086, 6089, 6099, 6103, 6103,
    6109, 6109, 6155, 6159, 6211, 6211, 6277, 6278, 6313, 6313, 6432, 6434, 6439, 6440, 6450,
    6450, 6457, 6459, 6679, 6680, 6683, 6683, 6742, 6742, 6744, 6750, 6752, 6752, 6754, 6754,
    6757, 6764, 6771, 6780, 6783, 6783, 6823, 6823, 6832, 6862, 6912, 6915, 6964, 6964, 6966,
    6970, 6972, 6972, 6978, 6978, 7019, 7027, 7040, 7041, 7074, 7077, 7080, 7081, 7083, 7085,
    7142, 7142, 7144, 7145, 7149, 7149, 7151, 7153, 7212, 7219, 7222, 7223, 7288, 7293, 7376,
    7378, 7380, 7392, 7394, 7400, 7405, 7405, 7412, 7412, 7416, 7417, 7468, 7530, 7544, 7544,
    7579, 7679, 8125, 8125, 8127, 8129, 8141, 8143, 8157, 8159, 8173, 8175, 8189, 8190, 8203,
    8207, 8216, 8217, 8228, 8228, 8231, 8231, 8234, 8238, 8288, 8292, 8294, 8303, 8305, 8305,
    8319, 8319, 8336, 8348, 8400, 8432, 11388, 11389, 11503, 11505, 11631, 11631, 11647, 11647,
    11744, 11775, 11823, 11823, 12293, 12293, 12330, 12333, 12337, 12341, 12347, 12347, 12441,
    12446, 12540, 12542, 40981, 40981, 42232, 42237, 42508, 42508, 42607, 42610, 42612, 42621,
    42623, 42623, 42652, 42655, 42736, 42737, 42752, 42785, 42864, 42864, 42888, 42890, 42994,
    42996, 43000, 43001, 43010, 43010, 43014, 43014, 43019, 43019, 43045, 43046, 43052, 43052,
    43204, 43205, 43232, 43249, 43263, 43263, 43302, 43309, 43335, 43345, 43392, 43394, 43443,
    43443, 43446, 43449, 43452, 43453, 43471, 43471, 43493, 43494, 43561, 43566, 43569, 43570,
    43573, 43574, 43587, 43587, 43596, 43596, 43632, 43632, 43644, 43644, 43696, 43696, 43698,
    43700, 43703, 43704, 43710, 43711, 43713, 43713, 43741, 43741, 43756, 43757, 43763, 43764,
    43766, 43766, 43867, 43871, 43881, 43883, 44005, 44005, 44008, 44008, 44013, 44013, 64286,
    64286, 64434, 64450, 65024, 65039, 65043, 65043, 65056, 65071, 65106, 65106, 65109, 65109,
    65279, 65279, 65287, 65287, 65294, 65294, 65306, 65306, 65342, 65342, 65344, 65344, 65392,
    65392, 65438, 65439, 65507, 65507, 65529, 65531, 66045, 66045, 66272, 66272, 66422, 66426,
    67456, 67461, 67463, 67504, 67506, 67514, 68097, 68099, 68101, 68102, 68108, 68111, 68152,
    68154, 68159, 68159, 68325, 68326, 68900, 68903, 69291, 69292, 69446, 69456, 69506, 69509,
    69633, 69633, 69688, 69702, 69744, 69744, 69747, 69748, 69759, 69761, 69811, 69814, 69817,
    69818, 69821, 69821, 69826, 69826, 69837, 69837, 69888, 69890, 69927, 69931, 69933, 69940,
    70003, 70003, 70016, 70017, 70070, 70078, 70089, 70092, 70095, 70095, 70191, 70193, 70196,
    70196, 70198, 70199, 70206, 70206, 70367, 70367, 70371, 70378, 70400, 70401, 70459, 70460,
    70464, 70464, 70502, 70508, 70512, 70516, 70712, 70719, 70722, 70724, 70726, 70726, 70750,
    70750, 70835, 70840, 70842, 70842, 70847, 70848, 70850, 70851, 71090, 71093, 71100, 71101,
    71103, 71104, 71132, 71133, 71219, 71226, 71229, 71229, 71231, 71232, 71339, 71339, 71341,
    71341, 71344, 71349, 71351, 71351, 71453, 71455, 71458, 71461, 71463, 71467, 71727, 71735,
    71737, 71738, 71995, 71996, 71998, 71998, 72003, 72003, 72148, 72151, 72154, 72155, 72160,
    72160, 72193, 72202, 72243, 72248, 72251, 72254, 72263, 72263, 72273, 72278, 72281, 72283,
    72330, 72342, 72344, 72345, 72752, 72758, 72760, 72765, 72767, 72767, 72850, 72871, 72874,
    72880, 72882, 72883, 72885, 72886, 73009, 73014, 73018, 73018, 73020, 73021, 73023, 73029,
    73031, 73031, 73104, 73105, 73109, 73109, 73111, 73111, 73459, 73460, 78896, 78904, 92912,
    92916, 92976, 92982, 92992, 92995, 94031, 94031, 94095, 94111, 94176, 94177, 94179, 94180,
    110576, 110579, 110581, 110587, 110589, 110590, 113821, 113822, 113824, 113827, 118528,
    118573, 118576, 118598, 119143, 119145, 119155, 119170, 119173, 119179, 119210, 119213,
    119362, 119364, 121344, 121398, 121403, 121452, 121461, 121461, 121476, 121476, 121499,
    121503, 121505, 121519, 122880, 122886, 122888, 122904, 122907, 122913, 122915, 122916,
    122918, 122922, 123184, 123197, 123566, 123566, 123628, 123631, 125136, 125142, 125252,
    125259, 127995, 127999, 917505, 917505, 917536, 917631, 917760, 917999
  >>
HaveProperty(s, ranges) == [j \in 1..Len(s) |-> InRanges(CodePoint(s[j]), ranges)]
\* position i ends a word: before it a cased character, after it none, case-ignorable
\* characters skipped
EndsWord(i, ignorable, cased) ==
    /\ \E j \in 1..(i - 1) :
          /\ ~ignorable[j] /\ cased[j]
          /\ \A k \in (j + 1)..(i - 1) : ignorable[k]
    /\ \A j \in (i + 1)..Len(cased) :
          (\A k \in (i + 1)..(j - 1) : ignorable[k]) => (ignorable[j] \/ ~cased[j])
\* the capital sigma at s[i] becomes the final sigma
FinalSigma(s, i) ==
    EndsWord(i, HaveProperty(s, CaseIgnorableRanges), HaveProperty(s, CasedRanges))
LowerAt(s, i, n) ==
    IF n = 931 THEN <<IF FinalSigma(s, i) THEN "U+03C2" ELSE "U+03C3">>
    ELSE LowerOfCode(s[i], n)
RECURSIVE LowerFrom(_, _)
LowerFrom(s, i) ==
    IF i > Len(s) THEN <<>> ELSE LowerAt(s, i, CodePoint(s[i])) \o LowerFrom(s, i + 1)
LowerWith(s, table) ==
    IF \A i \in 1..Len(s) : s[i] \in DOMAIN table
    THEN [i \in 1..Len(s) |-> table[s[i]]]
    ELSE LowerFrom(s, 1)
\* str.lower
Lower(s) == LowerWith(s, LowerOf)
\* str.strip: the characters str.isspace holds for
Whitespace ==
    {" ", "\t", "\n", "\r", "\f", "U+000B", "U+001C", "U+001D", "U+001E", "U+001F", "U+0085", "U+00A0",
     "U+1680", "U+2000", "U+2001", "U+2002", "U+2003", "U+2004", "U+2005", "U+2006",
     "U+2007", "U+2008", "U+2009", "U+200A", "U+2028", "U+2029", "U+202F", "U+205F",
     "U+3000"}
IsSpace(c) == c \in Whitespace
RECURSIVE FirstNonSpace(_, _)
FirstNonSpace(s, i) == IF i > Len(s) \/ ~IsSpace(s[i]) THEN i ELSE FirstNonSpace(s, i + 1)
RECURSIVE LastNonSpace(_, _)
LastNonSpace(s, i) == IF i < 1 \/ ~IsSpace(s[i]) THEN i ELSE LastNonSpace(s, i - 1)
Strip(s) == SubSeq(s, FirstNonSpace(s, 1), LastNonSpace(s, Len(s)))
\* needle in hay
Contains(needle, hay) ==
    \E i \in 1..(Len(hay) - Len(needle) + 1) : SubSeq(hay, i, i + Len(needle) - 1) = needle
Rep(c, n) == [i \in 1..n |-> c]

\* ---- tagged Python values ----
None == [t |-> "none"]
Str(s) == [t |-> "str", v |-> s]
IntVal(k) == [t |-> "int", n |-> k]
Num(k) == [t |-> "num", v |-> k]
IsNone(x) == x.t = "none"
IsStr(x) == x.t = "str"
\* bool(x)
Truthy(x) ==
    CASE x.t = "none" -> FALSE
      [] x.t = "str" -> Len(x.v) > 0
      [] x.t = "int" -> x.n # 0
      [] x.t = "num" -> x.v # 0
      [] OTHER -> TRUE

\* ---- arbitrary-precision naturals: little-endian sequences of 18-bit limbs ----
LimbBits == 18
PowersOf2 == [k \in 0..30 |-> 2^k]
Pow2(k) == PowersOf2[k]
LimbBase == Pow2(LimbBits)

RECURSIVE BigTrim(_)
BigTrim(n) == IF Len(n) > 0 /\ n[Len(n)] = 0 THEN BigTrim(SubSeq(n, 1, Len(n) - 1)) ELSE n

BigFromInt(a) == BigTrim(<<a % LimbBase, a \div LimbBase>>)

RECURSIVE BigToIntFrom(_, _)
BigToIntFrom(n, i) == IF i > Len(n) THEN 0 ELSE n[i] + LimbBase * BigToIntFrom(n, i + 1)
BigToInt(n) == BigToIntFrom(BigTrim(n), 1)

Limb(n, i) == IF i <= Len(n) THEN n[i] ELSE 0
MaxOf(a, b) == IF a >= b THEN a ELSE b
MinOf(a, b) == IF a <= b THEN a ELSE b

RECURSIVE BigAddFrom(_, _, _, _)
BigAddFrom(a, b, i, carry) ==
    IF i > MaxOf(Len(a), Len(b))
    THEN (IF carry = 0 THEN <<>> ELSE <<carry>>)
    ELSE LET t == Limb(a, i) + Limb(b, i) + carry
         IN <<t % LimbBase>> \o BigAddFrom(a, b, i + 1, t \div LimbBase)
BigAdd(a, b) == BigAddFrom(a, b, 1, 0)

\* a - b for a >= b
RECURSIVE BigSubFrom(_, _, _, _)
BigSubFrom(a, b, i, borrow) ==
    IF i > Len(a) THEN <<>>
    ELSE LET t == Limb(a, i) - Limb(b, i) - borrow
         IN IF t < 0 THEN <<t + LimbBase>> \o BigSubFrom(a, b, i + 1, 1)
                     ELSE <<t>> \o BigSubFrom(a, b, i + 1, 0)
BigSub(a, b) == BigTrim(BigSubFrom(a, b, 1, 0))

\* -1, 0, 1 as a <, =, > b
RECURSIVE BigCmpFrom(_, _, _)
BigCmpFrom(a, b, i) ==
    IF i = 0 THEN 0
    ELSE IF Limb(a, i) > Limb(b, i) THEN 1
    ELSE IF Limb(a, i) < Limb(b, i) THEN -1
    ELSE BigCmpFrom(a, b, i - 1)
BigCmp(a, b) == BigCmpFrom(a, b, MaxOf(Len(a), Len(b)))

\* n * c for 0 <= c < 2^12
RECURSIVE BigMulFrom(_, _, _, _)
BigMulFrom(n, c, i, carry) ==
    IF i > Len(n)
    THEN (IF carry = 0 THEN <<>> ELSE <<carry>>)
    ELSE LET t == n[i] * c + carry
         IN <<t % LimbBase>> \o BigMulFrom(n, c, i + 1, t \div LimbBase)
BigMulSmall(n, c) == BigTrim(BigMulFrom(n, c, 1, 0))

\* n * 2^k
RECURSIVE BigShlBits(_, _, _, _)
BigShlBits(n, r, i, carry) ==
    IF i > Len(n)
    THEN (IF carry = 0 THEN <<>> ELSE <<carry>>)
    ELSE LET keep == Pow2(LimbBits - r)
         IN <<(n[i] % keep) * Pow2(r) + carry>> \o BigShlBits(n, r, i + 1, n[i] \div keep)
BigShl(n, k) ==
    IF Len(BigTrim(n)) = 0 THEN <<>>
    ELSE [i \in 1..(k \div LimbBits) |-> 0] \o BigShlBits(BigTrim(n), k % LimbBits, 1, 0)

\* floor(n / 2^k)
BigShr(n, k) ==
    LET q == k \div LimbBits
        r == k % LimbBits
        low == Pow2(r)
        up == Pow2(LimbBits - r)
    IN IF q >= Len(n) THEN <<>>
       ELSE BigTrim([i \in 1..(Len(n) - q) |->
                (n[i + q] \div low) + (Limb(n, i + q + 1) % low) * up])

\* bit k (bit 0 is the least significant)
BigBit(n, k) == (Limb(n, (k \div LimbBits) + 1) \div Pow2(k % LimbBits)) % 2

\* some bit below bit k is set
BigLowBits(n, k) ==
    \/ \E i \in 1..MinOf(Len(n), k \div LimbBits) : n[i] # 0
    \/ Limb(n, (k \div LimbBits) + 1) % Pow2(k % LimbBits) # 0

\* the number of bits of a limb
IntBitLen(a) == IF a = 0 THEN 0 ELSE CHOOSE k \in 1..LimbBits : Pow2(k - 1) <= a /\ a < Pow2(k)
BigBitLen(n) ==
    LET t == BigTrim(n)
    IN IF Len(t) = 0 THEN 0 ELSE (Len(t) - 1) * LimbBits + IntBitLen(t[Len(t)])

\* quotient and remainder of n by d, 0 < d < 2^13
RECURSIVE BigDivFrom(_, _, _, _)
BigDivFrom(n, d, i, r) ==
    IF i = 0 THEN [q |-> <<>>, r |-> r]
    ELSE LET cur == r * LimbBase + n[i]
             rest == BigDivFrom(n, d, i - 1, cur % d)
         IN [q |-> rest.q \o <<cur \div d>>, r |-> rest.r]
BigDivSmall(n, d) ==
    LET res == BigDivFrom(n, d, Len(n), 0)
    IN [q |-> BigTrim(res.q), r |-> res.r]

\* ---- IEEE-754 binary64 values: sg * m * 2^e, m a natural of at most 53 bits ----
MantBits == 53
FZero == [sg |-> 0, m |-> <<>>, e |-> 0]

\* round sg * (n [+ a fraction below one unit when sticky]) * 2^e to nearest, ties to even
FRound(sg, n, e, sticky) ==
    LET len == BigBitLen(n)
        sh == len - MantBits
    IN IF len = 0 THEN FZero
       ELSE IF sh <= 0 THEN [sg |-> sg, m |-> BigTrim(n), e |-> e]
       ELSE LET q == BigShr(n, sh)
                half == BigBit(n, sh - 1) = 1
                below == sticky \/ BigLowBits(n, sh - 1)
                up == half /\ (below \/ BigBit(q, 0) = 1)
            IN [sg |-> sg, m |-> (IF up THEN BigAdd(q, <<1>>) ELSE q), e |-> e + sh]

FFromInt(a) ==
    IF a = 0 THEN FZero
    ELSE [sg |-> (IF a < 0 THEN -1 ELSE 1), m |-> BigFromInt(IF a < 0 THEN -a ELSE a), e |-> 0]

FNeg(x) == [sg |-> -x.sg, m |-> x.m, e |-> x.e]

\* x + y
FAdd(x, y) ==
    IF x.sg = 0 THEN y
    ELSE IF y.sg = 0 THEN x
    ELSE LET e == MinOf(x.e, y.e)
             a == BigShl(x.m, x.e - e)
             b == BigShl(y.m, y.e - e)
             c == BigCmp(a, b)
         IN IF x.sg = y.sg THEN FRound(x.sg, BigAdd(a, b), e, FALSE)
            ELSE IF c = 0 THEN FZero
            ELSE IF c > 0 THEN FRound(x.sg, BigSub(a, b), e, FALSE)
            ELSE FRound(y.sg, BigSub(b, a), e, FALSE)

\* c * x for an integer 0 <= c < 2^12
FMulInt(c, x) ==
    IF c = 0 \/ x.sg = 0 THEN FZero
    ELSE FRound(x.sg, BigMulSmall(x.m, c), x.e, FALSE)

\* a / b for integers a >= 0, 0 < b < 2^13
DivShift == 72
FDivInt(a, b) ==
    IF a = 0 THEN FZero
    ELSE LET d == BigDivSmall(BigShl(BigFromInt(a), DivShift), b)
         IN FRound(1, d.q, -DivShift, d.r # 0)

\* sign of x - y
FCmp(x, y) == FAdd(x, FNeg(y)).sg

\* int(x): truncation toward zero
FTrunc(x) ==
    IF x.sg = 0 THEN 0
    ELSE x.sg * BigToInt(IF x.e >= 0 THEN BigShl(x.m, x.e) ELSE BigShr(x.m, -x.e))

\* a rounding that drops the digits past the hundredths instead of rounding
TruncHundredths(x) ==
    FTrunc(FMulInt(100, x))

\* round(x, 2) as a count of hundredths (x >= 0): nearest, ties to even
FRoundHundredths(x) ==
    IF x.sg = 0 THEN 0
    ELSE LET n == BigMulSmall(x.m, 100)
         IN IF x.e >= 0 THEN BigToInt(BigShl(n, x.e))
            ELSE LET k == -x.e
                     q == BigShr(n, k)
                     half == BigBit(n, k - 1) = 1
                     below == BigLowBits(n, k - 1)
                     up == half /\ (below \/ BigBit(q, 0) = 1)
                 IN BigToInt(q) + (IF up THEN 1 ELSE 0)


\* ---- the record: a fresh SEOAnalysis() carries the field defaults ----
DefaultRecord == [
    title |-> None, title_length |-> 0,
    meta_description |-> None, meta_description_length |-> 0,
    h1_count |-> 0, h2_count |-> 0, h3_count |-> 0,
    h1_text |-> None, h2_texts |-> <<>>,
    word_count |-> 0, keyword |-> None, keyword_count |-> IntVal(0),
    keyword_density |-> 0, recommended_keyword_count |-> 0,
    paragraphs |-> <<>>,
    images_count |-> 0, missing_alt_images_count |-> 0,
    has_canonical |-> FALSE, has_schema_markup |-> FALSE, schema_types |-> <<>>,
    internal_links_count |-> 0, external_links_count |-> 0,
    largest_contentful_paint |-> None, first_input_delay |-> None,
    cumulative_layout_shift |-> None,
    mobile_friendly |-> FALSE, https |-> FALSE,
    content_readability_score |-> None, duplicate_content |-> FALSE,
    thin_content |-> FALSE, content_freshness |-> None,
    robots_txt_status |-> FALSE, sitemap_status |-> FALSE, page_load_time |-> None,
    schema_errors |-> <<>>, breadcrumb_schema_present |-> FALSE,
    author_credentials |-> FALSE, author_bylines |-> FALSE, citation_sources |-> 0,
    last_updated |-> None, contact_info_present |-> FALSE,
    seo_health_percentage |-> 0,
    recommendations |-> <<>>]

SEO_WEIGHTS == [
    title |-> 8, meta_description |-> 4, h1 |-> 4, headers_structure |-> 4,
    headers_unique |-> 3, images |-> 4, canonical |-> 3, schema |-> 4,
    keywords |-> 12, keyword_distribution |-> 8, paragraph_length |-> 6,
    links |-> 3, content_length |-> 8, core_vitals |-> 15, eeat |-> 10,
    technical_seo |-> 6, content_freshness |-> 3, mobile_friendly |-> 2, https |-> 3]

\* one entry of the recommendations list; the message is its template and arguments
Recommendation(type, priority, id, args) ==
    [type |-> type, priority |-> priority, message |-> [id |-> id, a |-> args]]

\* a division that rounds down instead of to the nearest integer
FloorDiv(a, b) ==
    a \div b

\* round(a / b) for integers: nearest, ties to even
RoundDiv(a, b) ==
    LET q == a \div b
        twice == 2 * (a % b)
    IN IF twice > b \/ (twice = b /\ q % 2 = 1) THEN q + 1 ELSE q

\* ---- SEOAnalysis.calculate_keyword_stats ----
\* [ok |-> the call returned, r |-> the record it leaves]
calculate_keyword_stats(r) ==
    IF ~Truthy(r.keyword) \/ r.word_count = 0
    THEN [ok |-> TRUE, r |-> [r EXCEPT !.keyword_density = 0, !.recommended_keyword_count = 0]]
    ELSE IF r.keyword_count.t # "int"
    THEN [ok |-> FALSE, r |-> r]
    ELSE [ok |-> TRUE, r |-> [r EXCEPT
            !.keyword_density =
                FRoundHundredths(FMulInt(100, FDivInt(r.keyword_count.n, r.word_count))),
            !.recommended_keyword_count =
                IF r.word_count <= 300 THEN 1
                ELSE IF r.word_count <= 800 THEN MaxOf(2, RoundDiv(r.word_count, 250))
                ELSE MaxOf(3, RoundDiv(r.word_count, 300))]]

\* ---- SEOAnalysis.analyze_headers_structure ----
\* a comparison of H1 and H2 texts that ignores case but not surrounding whitespace
RECURSIVE IdenticalUntrimmed(_, _)
IdenticalUntrimmed(r, i) ==
    IF i > Len(r.h2_texts) THEN <<>>
    ELSE (IF Lower(r.h1_text.v) = Lower(r.h2_texts[i])
          THEN <<Recommendation("headers", "high", "h1_h2_identical", <<i, r.h1_text.v>>)>>
          ELSE <<>>) \o IdenticalUntrimmed(r, i + 1)

RECURSIVE IdenticalH1H2(_, _)
IdenticalH1H2(r, i) ==
    IF i > Len(r.h2_texts) THEN <<>>
    ELSE (IF Strip(Lower(r.h1_text.v)) = Strip(Lower(r.h2_texts[i]))
          THEN <<Recommendation("headers", "high", "h1_h2_identical", <<i, r.h1_text.v>>)>>
          ELSE <<>>) \o IdenticalH1H2(r, i + 1)

\* a header analysis that reports a missing H1 as high only
HeadersMissingH1High(r) ==
    (IF r.h1_count = 0
     THEN <<Recommendation("headers", "high", "h1_missing", <<>>)>>
     ELSE IF r.h1_count > 1
     THEN <<Recommendation("headers", "high", "h1_multiple", <<r.h1_count>>)>>
     ELSE <<>>)
    \o (IF r.h2_count = 0 /\ r.word_count > 300
        THEN <<Recommendation("headers", "medium", "h2_missing", <<>>)>>
        ELSE <<>>)
    \o (IF Truthy(r.h1_text) /\ Len(r.h2_texts) > 0 THEN IdenticalH1H2(r, 1) ELSE <<>>)
    \o (IF Len(r.h2_texts) > 0
           /\ Len(r.h2_texts) # Cardinality({Lower(r.h2_texts[i]) : i \in 1..Len(r.h2_texts)})
        THEN <<Recommendation("headers", "medium", "h2_duplicate", <<>>)>>
        ELSE <<>>)

analyze_headers_structure(r) ==
    (IF r.h1_count = 0
     THEN <<Recommendation("headers", "critical", "h1_missing", <<>>)>>
     ELSE IF r.h1_count > 1
     THEN <<Recommendation("headers", "high", "h1_multiple", <<r.h1_count>>)>>
     ELSE <<>>)
    \o (IF r.h2_count = 0 /\ r.word_count > 300
        THEN <<Recommendation("headers", "medium", "h2_missing", <<>>)>>
        ELSE <<>>)
    \o (IF Truthy(r.h1_text) /\ Len(r.h2_texts) > 0 THEN IdenticalH1H2(r, 1) ELSE <<>>)
    \o (IF Len(r.h2_texts) > 0
           /\ Len(r.h2_texts) # Cardinality({Lower(r.h2_texts[i]) : i \in 1..Len(r.h2_texts)})
        THEN <<Recommendation("headers", "medium", "h2_duplicate", <<>>)>>
        ELSE <<>>)

\* ---- SEOAnalysis.analyze_paragraphs ----
\* a paragraph is a dict with optional keys text and length, or a value of another type
IsDict(p) == "t" \notin DOMAIN p
ParagraphLength(p) == IF "length" \in DOMAIN p THEN p.length ELSE 0
ParagraphText(p) == IF "text" \in DOMAIN p THEN p.text ELSE <<>>
KeywordInParagraph(r, p) == Contains(Lower(r.keyword.v), Lower(ParagraphText(p)))
LongParagraphs(r) ==
    Cardinality({i \in 1..Len(r.paragraphs) : ParagraphLength(r.paragraphs[i]) > 200})
ParagraphsWithKeyword(r) ==
    Cardinality({i \in 1..Len(r.paragraphs) : KeywordInParagraph(r, r.paragraphs[i])})

RECURSIVE VeryLongParagraphs(_, _)
VeryLongParagraphs(r, i) ==
    IF i > Len(r.paragraphs) THEN <<>>
    ELSE (IF ParagraphLength(r.paragraphs[i]) > 300
          THEN <<Recommendation("paragraph_length", "high", "paragraph_very_long",
                                <<i, ParagraphLength(r.paragraphs[i])>>)>>
          ELSE <<>>) \o VeryLongParagraphs(r, i + 1)

\* a paragraph analysis that already reports stuffing at a coverage of exactly 0.7
ParagraphsStuffingAt70(r) ==
    IF Len(r.paragraphs) = 0 THEN [ok |-> TRUE, issues |-> <<>>]
    ELSE IF \E i \in 1..Len(r.paragraphs) : ~IsDict(r.paragraphs[i])
    THEN [ok |-> FALSE, issues |-> <<>>]
    ELSE LET total == Len(r.paragraphs)
             long == LongParagraphs(r)
             with == IF Truthy(r.keyword) THEN ParagraphsWithKeyword(r) ELSE 0
         IN [ok |-> TRUE, issues |->
              VeryLongParagraphs(r, 1)
              \o (IF 2 * long > total
                  THEN <<Recommendation("paragraph_length", "medium", "paragraphs_long",
                                        <<long, total>>)>>
                  ELSE <<>>)
              \o (IF Truthy(r.keyword)
                  THEN (IF 5 * with < total
                        THEN <<Recommendation("keyword_distribution", "medium",
                                              "keyword_sparse", <<r.keyword.v, with, total>>)>>
                        ELSE IF 10 * with >= 7 * total
                        THEN <<Recommendation("keyword_distribution", "high",
                                              "keyword_stuffing", <<r.keyword.v, with, total>>)>>
                        ELSE <<>>)
                  ELSE <<>>)]

\* [ok |-> the call returned, issues |-> its result]
analyze_paragraphs(r) ==
    IF Len(r.paragraphs) = 0 THEN [ok |-> TRUE, issues |-> <<>>]
    ELSE IF \E i \in 1..Len(r.paragraphs) : ~IsDict(r.paragraphs[i])
    THEN [ok |-> FALSE, issues |-> <<>>]
    ELSE LET total == Len(r.paragraphs)
             long == LongParagraphs(r)
             with == IF Truthy(r.keyword) THEN ParagraphsWithKeyword(r) ELSE 0
         IN [ok |-> TRUE, issues |->
              VeryLongParagraphs(r, 1)
              \o (IF 2 * long > total
                  THEN <<Recommendation("paragraph_length", "medium", "paragraphs_long",
                                        <<long, total>>)>>
                  ELSE <<>>)
              \o (IF Truthy(r.keyword)
                  THEN (IF 5 * with < total
                        THEN <<Recommendation("keyword_distribution", "medium",
                                              "keyword_sparse", <<r.keyword.v, with, total>>)>>
                        ELSE IF 10 * with > 7 * total
                        THEN <<Recommendation("keyword_distribution", "high",
                                              "keyword_stuffing", <<r.keyword.v, with, total>>)>>
                        ELSE <<>>)
                  ELSE <<>>)]

\* ---- SEOAnalysis.check_schema_markup ----
\* names of schema.org types
Article == <<"A", "r", "t", "i", "c", "l", "e">>
Product == <<"P", "r", "o", "d", "u", "c", "t">>
check_schema_markup(r) ==
    IF ~r.has_schema_markup
    THEN <<Recommendation("schema", "high", "schema_missing", <<>>)>>
    ELSE IF Len(r.schema_types) = 0
    THEN <<Recommendation("schema", "medium", "schema_type_unknown", <<>>)>>
    ELSE LET suggestions ==
                 (IF r.word_count > 500
                     /\ \A i \in 1..Len(r.schema_types) : r.schema_types[i] # Article
                  THEN <<"Article">> ELSE <<>>)
                 \o (IF ~r.breadcrumb_schema_present THEN <<"BreadcrumbList">> ELSE <<>>)
         IN (IF Len(r.schema_errors) > 0
             THEN <<Recommendation("schema", "high", "schema_errors", <<Len(r.schema_errors)>>)>>
             ELSE <<>>)
            \o (IF Len(suggestions) > 0
                THEN <<Recommendation("schema", "low", "schema_suggestions", suggestions)>>
                ELSE <<>>)

\* ---- SEOAnalysis.calculate_core_web_vitals_score ----
\* a vitals score whose best CLS band ends at 0.01
VitalsStrictCls(r) ==
    (IF IsNone(r.largest_contentful_paint) THEN 0
     ELSE IF r.largest_contentful_paint.v <= 2500 THEN 35
     ELSE IF r.largest_contentful_paint.v <= 4000 THEN 20
     ELSE 5)
    + (IF IsNone(r.first_input_delay) THEN 0
       ELSE IF r.first_input_delay.v <= 100 THEN 25
       ELSE IF r.first_input_delay.v <= 300 THEN 15
       ELSE 5)
    + (IF IsNone(r.cumulative_layout_shift) THEN 0
       ELSE IF r.cumulative_layout_shift.v <= 10 THEN 40
       ELSE IF r.cumulative_layout_shift.v <= 250 THEN 25
       ELSE 10)

\* a vitals score that counts an absent metric in its worst band
VitalsAbsentAsWorst(r) ==
    (IF IsNone(r.largest_contentful_paint) THEN 5
     ELSE IF r.largest_contentful_paint.v <= 2500 THEN 35
     ELSE IF r.largest_contentful_paint.v <= 4000 THEN 20
     ELSE 5)
    + (IF IsNone(r.first_input_delay) THEN 5
       ELSE IF r.first_input_delay.v <= 100 THEN 25
       ELSE IF r.first_input_delay.v <= 300 THEN 15
       ELSE 5)
    + (IF IsNone(r.cumulative_layout_shift) THEN 10
       ELSE IF r.cumulative_layout_shift.v <= 100 THEN 40
       ELSE IF r.cumulative_layout_shift.v <= 250 THEN 25
       ELSE 10)

calculate_core_web_vitals_score(r) ==
    (IF IsNone(r.largest_contentful_paint) THEN 0
     ELSE IF r.largest_contentful_paint.v <= 2500 THEN 35
     ELSE IF r.largest_contentful_paint.v <= 4000 THEN 20
     ELSE 5)
    + (IF IsNone(r.first_input_delay) THEN 0
       ELSE IF r.first_input_delay.v <= 100 THEN 25
       ELSE IF r.first_input_delay.v <= 300 THEN 15
       ELSE 5)
    + (IF IsNone(r.cumulative_layout_shift) THEN 0
       ELSE IF r.cumulative_layout_shift.v <= 100 THEN 40
       ELSE IF r.cumulative_layout_shift.v <= 250 THEN 25
       ELSE 10)

\* ---- SEOAnalysis.calculate_eeat_score ----
\* last_updated is None, a naive datetime [t |-> "naive", at |-> hour] or a
\* timezone-aware one [t |-> "aware", at |-> hour]; datetime.now() is naive, and
\* subtracting an aware datetime from it raises TypeError
HoursPerDay == 24
calculate_eeat_score(r, clock) ==
    IF r.last_updated.t = "aware" THEN [ok |-> FALSE, v |-> 0]
    ELSE LET days_old == IF IsNone(r.last_updated) THEN 0
                         ELSE (clock - r.last_updated.at) \div HoursPerDay
             score == (IF r.author_credentials THEN 25 ELSE 0)
                      + (IF r.author_bylines THEN 20 ELSE 0)
                      + (IF r.citation_sources > 0 THEN MinOf(25, r.citation_sources * 5) ELSE 0)
                      + (IF r.contact_info_present THEN 15 ELSE 0)
                      + (IF IsNone(r.last_updated) THEN 0
                         ELSE IF days_old <= 90 THEN 15
                         ELSE IF days_old <= 365 THEN 10
                         ELSE IF days_old <= 730 THEN 5
                         ELSE 0)
         IN [ok |-> TRUE, v |-> MinOf(100, score)]

\* ---- SEOAnalysis.analyze_content_quality ----
analyze_content_quality(r) ==
    (IF r.word_count < 300 THEN <<[id |-> "content_too_thin", a |-> <<r.word_count>>]>>
     ELSE IF r.word_count < 500 THEN <<[id |-> "content_expand", a |-> <<r.word_count>>]>>
     ELSE <<>>)
    \o (IF r.duplicate_content THEN <<[id |-> "content_duplicate", a |-> <<>>]>> ELSE <<>>)
    \o (IF IsNone(r.content_readability_score) THEN <<>>
        ELSE IF r.content_readability_score.v < 30
        THEN <<[id |-> "very_difficult_to_read", a |-> <<r.content_readability_score.v>>]>>
        ELSE IF r.content_readability_score.v < 50
        THEN <<[id |-> "difficult_to_read", a |-> <<r.content_readability_score.v>>]>>
        ELSE <<>>)
    \o (IF r.thin_content THEN <<[id |-> "flagged_thin", a |-> <<>>]>> ELSE <<>>)

\* ---- SEOAnalysis.generate_recommendations ----
PriorityRank(p) ==
    CASE p = "critical" -> 0
      [] p = "high" -> 1
      [] p = "medium" -> 2
      [] p = "low" -> 3
      [] OTHER -> 4

\* a sort that puts an entry in front of the entries of its own key
InsertBeforeEqual(s, x) ==
    LET k == Cardinality({i \in 1..Len(s) : PriorityRank(s[i].priority) < PriorityRank(x.priority)})
    IN SubSeq(s, 1, k) \o <<x>> \o SubSeq(s, k + 1, Len(s))
\* list.sort(key=...) is stable: an entry goes behind every entry whose key is not larger
InsertByPriority(s, x) ==
    LET k == Cardinality({i \in 1..Len(s) : PriorityRank(s[i].priority) <= PriorityRank(x.priority)})
    IN SubSeq(s, 1, k) \o <<x>> \o SubSeq(s, k + 1, Len(s))
RECURSIVE SortByPriority(_)
SortByPriority(s) ==
    IF Len(s) = 0 THEN <<>>
    ELSE InsertByPriority(SortByPriority(SubSeq(s, 1, Len(s) - 1)), s[Len(s)])

ContentQualityRecommendations(r) ==
    LET issues == analyze_content_quality(r)
    IN [i \in 1..Len(issues) |->
          [type |-> "content_quality", priority |-> "high", message |-> issues[i]]]

\* the keyword branch; keyword_count < recommended raises TypeError for a str keyword_count
KeywordRecommendations(r) ==
    IF ~Truthy(r.keyword) THEN [ok |-> TRUE, issues |-> <<>>]
    ELSE IF r.keyword_count.t # "int" THEN [ok |-> FALSE, issues |-> <<>>]
    ELSE [ok |-> TRUE, issues |->
           (IF r.keyword_count.n = 0
            THEN <<Recommendation("keyword", "critical", "keyword_not_found", <<r.keyword.v>>)>>
            ELSE IF r.keyword_count.n < r.recommended_keyword_count
            THEN <<Recommendation("keyword", "medium", "keyword_underused",
                     <<r.keyword.v, r.keyword_count.n, r.recommended_keyword_count>>)>>
            ELSE <<>>)
           \o (IF r.keyword_density < 50
               THEN <<Recommendation("keyword", "medium", "density_low", <<r.keyword_density>>)>>
               ELSE IF r.keyword_density > 300
               THEN <<Recommendation("keyword", "high", "density_high", <<r.keyword_density>>)>>
               ELSE <<>>)]

\* the entries for title, meta description and HTTPS
BasicRecommendations(r) ==
    (IF ~Truthy(r.title) \/ r.title_length = 0
     THEN <<Recommendation("title", "critical", "title_missing", <<>>)>>
     ELSE IF r.title_length < 30
     THEN <<Recommendation("title", "high", "title_short", <<r.title_length>>)>>
     ELSE IF r.title_length > 70
     THEN <<Recommendation("title", "high", "title_long", <<r.title_length>>)>>
     ELSE <<>>)
    \o (IF ~Truthy(r.meta_description) \/ r.meta_description_length = 0
        THEN <<Recommendation("meta_description", "high", "meta_missing", <<>>)>>
        ELSE IF r.meta_description_length < 120
        THEN <<Recommendation("meta_description", "medium", "meta_short",
                              <<r.meta_description_length>>)>>
        ELSE <<>>)
    \o (IF ~r.https
        THEN <<Recommendation("security", "critical", "no_https", <<>>)>>
        ELSE <<>>)

\* the entries appended up to the keyword analysis
RecommendationsBeforeKeyword(r) ==
    BasicRecommendations(r)
    \o analyze_headers_structure(r)
    \o analyze_paragraphs(r).issues
    \o check_schema_markup(r)
    \o ContentQualityRecommendations(r)

\* the entries for canonical URL, mobile friendliness and Core Web Vitals
TechnicalRecommendations(r) ==
    (IF ~r.has_canonical
        THEN <<Recommendation("technical", "medium", "no_canonical", <<>>)>>
        ELSE <<>>)
    \o (IF ~r.mobile_friendly
        THEN <<Recommendation("technical", "high", "not_mobile_friendly", <<>>)>>
        ELSE <<>>)
    \o (IF Truthy(r.largest_contentful_paint) /\ r.largest_contentful_paint.v > 2500
        THEN <<Recommendation("performance", "high", "lcp_slow",
                              <<r.largest_contentful_paint.v>>)>>
        ELSE <<>>)
    \o (IF Truthy(r.cumulative_layout_shift) /\ r.cumulative_layout_shift.v > 100
        THEN <<Recommendation("performance", "medium", "cls_high",
                              <<r.cumulative_layout_shift.v>>)>>
        ELSE <<>>)

\* the list in detection order, before the sort
DetectedRecommendations(r) ==
    LET paragraphs == analyze_paragraphs(r)
        keywords == KeywordRecommendations(r)
    IN [ok |-> paragraphs.ok /\ keywords.ok, issues |->
          BasicRecommendations(r)
          \o analyze_headers_structure(r)
          \o paragraphs.issues
          \o check_schema_markup(r)
          \o ContentQualityRecommendations(r)
          \o keywords.issues
          \o TechnicalRecommendations(r)]

\* the list a call that raises leaves behind: self.recommendations was reset and holds
\* the entries appended before the statement that raised
PartialRecommendations(r) ==
    IF ~analyze_paragraphs(r).ok
    THEN BasicRecommendations(r) \o analyze_headers_structure(r)
    ELSE RecommendationsBeforeKeyword(r)

\* [ok |-> the call returned, r |-> the record it leaves]
generate_recommendations(r) ==
    LET detected == DetectedRecommendations(r)
    IN IF detected.ok
       THEN [ok |-> TRUE, r |-> [r EXCEPT !.recommendations = SortByPriority(detected.issues)]]
       ELSE [ok |-> FALSE, r |-> [r EXCEPT !.recommendations = PartialRecommendations(r)]]

\* ---- SEOAnalysis.calculate_seo_health ----
WeightNames == DOMAIN SEO_WEIGHTS
RECURSIVE SumWeights(_)
SumWeights(names) ==
    IF names = {} THEN 0
    ELSE LET n == CHOOSE x \in names : TRUE IN SEO_WEIGHTS[n] + SumWeights(names \ {n})
\* the budget the weights add up to
WeightTotal == SumWeights(WeightNames)

\* the float literals 0.7, 0.3 and 0.5
F07 == FDivInt(7, 10)
F03 == FDivInt(3, 10)
F05 == FDivInt(1, 2)
Weight(name) == FFromInt(SEO_WEIGHTS[name])
\* a partial credit that grants the whole weight
WeightIgnoringFactor(name, factor) == FFromInt(SEO_WEIGHTS[name])
WeightTimes(name, factor) == FMulInt(SEO_WEIGHTS[name], factor)

\* self.keyword and self.keyword_count > 0
KeywordCounted(r) == Truthy(r.keyword) /\ r.keyword_count.t = "int" /\ r.keyword_count.n > 0

\* what each "score +=" adds, in the order of the additions
ScoreTerms(r, clock) == <<
    \* title
    IF ~Truthy(r.title) THEN FZero
    ELSE IF 50 <= r.title_length /\ r.title_length <= 60 THEN Weight("title")
    ELSE IF 30 <= r.title_length /\ r.title_length <= 70 THEN WeightTimes("title", F07)
    ELSE IF r.title_length > 0 THEN WeightTimes("title", F03)
    ELSE FZero,
    \* meta description
    IF ~Truthy(r.meta_description) THEN FZero
    ELSE IF 150 <= r.meta_description_length /\ r.meta_description_length <= 160
    THEN Weight("meta_description")
    ELSE IF 120 <= r.meta_description_length /\ r.meta_description_length <= 170
    THEN WeightTimes("meta_description", F07)
    ELSE FZero,
    \* header structure
    IF r.h1_count = 1 THEN Weight("h1") ELSE FZero,
    IF r.h2_count >= 2 THEN WeightTimes("headers_structure", F07) ELSE FZero,
    IF r.h3_count >= 1 THEN WeightTimes("headers_structure", F03) ELSE FZero,
    \* unique headers
    IF Truthy(r.h1_text) /\ Len(r.h2_texts) > 0
       /\ \E i \in 1..Len(r.h2_texts) : Strip(Lower(r.h1_text.v)) = Strip(Lower(r.h2_texts[i]))
    THEN FZero ELSE Weight("headers_unique"),
    \* images
    IF r.images_count > 0
    THEN WeightTimes("images",
           FAdd(FFromInt(1), FNeg(FDivInt(r.missing_alt_images_count, r.images_count))))
    ELSE FZero,
    \* keyword density
    IF ~KeywordCounted(r) THEN FZero
    ELSE IF 100 <= r.keyword_density /\ r.keyword_density <= 250 THEN Weight("keywords")
    ELSE IF 50 <= r.keyword_density /\ r.keyword_density <= 350 THEN WeightTimes("keywords", F07)
    ELSE IF r.keyword_density > 0 THEN WeightTimes("keywords", F03)
    ELSE FZero,
    \* keyword distribution
    IF ~KeywordCounted(r) \/ Len(r.paragraphs) = 0 THEN FZero
    ELSE LET with == ParagraphsWithKeyword(r)
             total == Len(r.paragraphs)
         IN IF 5 * with >= total /\ 10 * with <= 7 * total THEN Weight("keyword_distribution")
            ELSE IF with > 0 THEN WeightTimes("keyword_distribution", F05)
            ELSE FZero,
    \* paragraph length
    IF Len(r.paragraphs) > 0
    THEN WeightTimes("paragraph_length",
           FAdd(FFromInt(1), FNeg(FDivInt(LongParagraphs(r), Len(r.paragraphs)))))
    ELSE FZero,
    \* content length
    IF r.word_count >= 500 THEN Weight("content_length")
    ELSE IF r.word_count >= 300 THEN WeightTimes("content_length", F07)
    ELSE IF r.word_count >= 150 THEN WeightTimes("content_length", F03)
    ELSE FZero,
    \* technical
    IF r.has_canonical THEN Weight("canonical") ELSE FZero,
    IF r.has_schema_markup THEN Weight("schema") ELSE FZero,
    IF r.https THEN Weight("https") ELSE FZero,
    IF r.mobile_friendly THEN Weight("mobile_friendly") ELSE FZero,
    \* links
    IF r.internal_links_count > 0 /\ r.external_links_count > 0 THEN Weight("links")
    ELSE IF r.internal_links_count > 0 \/ r.external_links_count > 0
    THEN WeightTimes("links", F05)
    ELSE FZero,
    \* core web vitals
    WeightTimes("core_vitals", FDivInt(calculate_core_web_vitals_score(r), 100)),
    \* E-E-A-T
    WeightTimes("eeat", FDivInt(calculate_eeat_score(r, clock).v, 100)),
    \* robots, sitemap, load time
    LET tech_factors == (IF r.robots_txt_status THEN 1 ELSE 0)
                        + (IF r.sitemap_status THEN 1 ELSE 0)
                        + (IF Truthy(r.page_load_time) /\ r.page_load_time.v <= 3000
                           THEN 1 ELSE 0)
    IN WeightTimes("technical_seo", FDivInt(tech_factors, 3)),
    \* content freshness: a date [t |-> "date", day |-> d]
    IF IsNone(r.content_freshness) THEN FZero
    ELSE LET days_old == (clock \div HoursPerDay) - r.content_freshness.day
         IN IF days_old <= 30 THEN Weight("content_freshness")
            ELSE IF days_old <= 180 THEN WeightTimes("content_freshness", F07)
            ELSE IF days_old <= 365 THEN WeightTimes("content_freshness", F03)
            ELSE FZero >>

RECURSIVE SumTerms(_, _)
SumTerms(terms, k) == IF k = 0 THEN FZero ELSE FAdd(SumTerms(terms, k - 1), terms[k])

\* the value of score when the final clamp is reached
ScoreSum(r, clock) == LET terms == ScoreTerms(r, clock) IN SumTerms(terms, Len(terms))

\* a final step that forgets the upper bound
ClampLowerOnly(score) == MaxOf(0, score)
Clamp(score) == MinOf(100, MaxOf(0, score))

\* [ok |-> the call returned, r |-> the record it leaves]; keyword_count > 0 raises
\* TypeError for a str keyword_count, p.get raises AttributeError for a paragraph that is
\* no dict, and calculate_eeat_score raises for an aware last_updated
SeoHealthRaises(r, clock) ==
    \/ Truthy(r.keyword) /\ r.keyword_count.t # "int"
    \/ \E i \in 1..Len(r.paragraphs) : ~IsDict(r.paragraphs[i])
    \/ ~calculate_eeat_score(r, clock).ok
calculate_seo_health(r, clock) ==
    IF SeoHealthRaises(r, clock)
    THEN [ok |-> FALSE, r |-> r]
    ELSE [ok |-> TRUE,
          r |-> [r EXCEPT !.seo_health_percentage = Clamp(FTrunc(ScoreSum(r, clock)))]]

\* ---- SEOAnalysis.has_critical_errors ----
has_critical_errors(r) ==
    \/ ~r.https
    \/ ~Truthy(r.title) \/ r.title_length = 0
    \/ r.h1_count = 0
    \/ (Truthy(r.keyword) /\ r.keyword_count.t = "int" /\ r.keyword_count.n = 0)
    \/ \E i \in 1..Len(r.recommendations) : r.recommendations[i].priority = "critical"

\* ---- SEOAnalysis.get_seo_grade ----
\* a mapping whose top grade starts above 90
GradeAbove90(r) ==
    IF r.seo_health_percentage > 90 THEN "A+"
    ELSE IF r.seo_health_percentage >= 80 THEN "A"
    ELSE IF r.seo_health_percentage >= 70 THEN "B"
    ELSE IF r.seo_health_percentage >= 60 THEN "C"
    ELSE IF r.seo_health_percentage >= 50 THEN "D"
    ELSE "F"
get_seo_grade(r) ==
    IF r.seo_health_percentage >= 90 THEN "A+"
    ELSE IF r.seo_health_percentage >= 80 THEN "A"
    ELSE IF r.seo_health_percentage >= 70 THEN "B"
    ELSE IF r.seo_health_percentage >= 60 THEN "C"
    ELSE IF r.seo_health_percentage >= 50 THEN "D"
    ELSE "F"

\* ---- SEOAnalysis.save ----
\* len(x.strip()) if x else 0; strip on a value that is not a str raises AttributeError
StrippedLength(x) == IF Truthy(x) THEN Len(Strip(x.v)) ELSE 0
UpdateLengths(r) ==
    IF Truthy(r.title) /\ ~IsStr(r.title) THEN [ok |-> FALSE, r |-> r]
    ELSE [ok |-> TRUE, r |-> [r EXCEPT
            !.title_length = StrippedLength(r.title),
            !.meta_description_length = StrippedLength(r.meta_description)]]

ErrorRecommendation ==
    [type |-> "error", priority |-> "critical",
     message |-> [id |-> "analysis_error", a |-> <<>>]]

\* an except branch that resets the score and leaves the list
FallbackKeepsList(r) == [r EXCEPT !.seo_health_percentage = 0]
\* the except branch
Fallback(r) ==
    [r EXCEPT !.seo_health_percentage = 0, !.recommendations = <<ErrorRecommendation>>]

\* the statements of the try block after the length update; each takes the result
\* [ok |-> no exception so far, r |-> the record] of the statements before it
ThenKeywordStats(res) == IF res.ok THEN calculate_keyword_stats(res.r) ELSE res
ThenRecommendations(res) == IF res.ok THEN generate_recommendations(res.r) ELSE res
ThenHealth(res, clock) == IF res.ok THEN calculate_seo_health(res.r, clock) ELSE res
ThenThinContent(res) ==
    IF res.ok THEN [ok |-> TRUE, r |-> [res.r EXCEPT !.thin_content = (res.r.word_count < 300)]]
    ELSE res
\* the try block: [ok |-> no exception, r |-> the record when the block is left]
TryBlock(r, clock) ==
    ThenThinContent(ThenHealth(ThenRecommendations(ThenKeywordStats(UpdateLengths(r))), clock))

\* some statement of the try block raises
BeforeHealth(r) == ThenRecommendations(ThenKeywordStats(UpdateLengths(r)))
HealthRaisesAfter(res, clock) == ~res.ok \/ SeoHealthRaises(res.r, clock)
TryBlockRaises(r, clock) == HealthRaisesAfter(BeforeHealth(r), clock)

\* the except branch runs when the try block raised
AfterTry(try) == IF try.ok THEN try.r ELSE Fallback(try.r)
save(r, clock) == AfterTry(TryBlock(r, clock))

\* ---- input signals ----
Now0 == 24000
Today0 == Now0 \div HoursPerDay
Keyword == <<"s", "e", "o">>

\* the end-to-end example of the specification
ExampleRecord == [DefaultRecord EXCEPT
    !.title = Str(Rep("x", 55)),
    !.h1_count = 1, !.h2_count = 3, !.h3_count = 2,
    !.word_count = 600, !.keyword = Str(Keyword), !.keyword_count = IntVal(6),
    !.paragraphs = [i \in 1..4 |-> [length |-> 150]],
    !.images_count = 2, !.missing_alt_images_count = 0,
    !.has_canonical = TRUE, !.has_schema_markup = TRUE, !.schema_types = <<Article>>,
    !.https = TRUE, !.mobile_friendly = TRUE,
    !.largest_contentful_paint = Num(2000), !.first_input_delay = Num(50),
    !.cumulative_layout_shift = Num(50)]

\* a page on which every check is at its best
BestRecord == [ExampleRecord EXCEPT
    !.meta_description = Str(Rep("y", 155)),
    !.h1_text = Str(<<"H", "e", "a", "d">>), !.h2_texts = <<<<"a">>, <<"b">>>>,
    !.keyword_count = IntVal(9),
    !.paragraphs = <<[text |-> <<"S", "E", "O", " ", "x">>, length |-> 5],
                     [text |-> <<"y">>, length |-> 1]>>,
    !.internal_links_count = 1, !.external_links_count = 1,
    !.robots_txt_status = TRUE, !.sitemap_status = TRUE, !.page_load_time = Num(1000),
    !.content_freshness = [t |-> "date", day |-> Today0],
    !.breadcrumb_schema_present = TRUE,
    !.author_credentials = TRUE, !.author_bylines = TRUE, !.citation_sources = 5,
    !.last_updated = [t |-> "naive", at |-> Now0], !.contact_info_present = TRUE]

\* a short page with a keyword, several findings of every priority
ThinRecord == [DefaultRecord EXCEPT
    !.title = Str(Rep("x", 20)), !.meta_description = Str(Rep("y", 60)),
    !.h1_count = 2, !.h1_text = Str(<<"T", "i", "p">>), !.h2_texts = <<<<"t", "i", "p", " ">>>>,
    !.word_count = 120, !.keyword = Str(Keyword), !.keyword_count = IntVal(2),
    !.paragraphs = <<[text |-> <<"s", "e", "o">>, length |-> 320]>>,
    !.has_schema_markup = TRUE, !.schema_types = <<Product>>,
    !.https = TRUE, !.internal_links_count = 2,
    !.largest_contentful_paint = Num(3000), !.cumulative_layout_shift = Num(200),
    !.citation_sources = 2]

Profiles == <<DefaultRecord, ExampleRecord, BestRecord, ThinRecord>>

TitleChoices == <<None, Str(<<" ", " ">>), Str(Rep("x", 10)),
                  Str(<<" ">> \o Rep("x", 35) \o <<"\n">>), Str(Rep("x", 75)), IntVal(7)>>
MetaChoices == <<None, Str(Rep("y", 50)), Str(Rep("y", 130)), Str(Rep("y", 155))>>
HeaderChoices == <<
    [h1_count |-> 0, h2_count |-> 0, h3_count |-> 0, h1_text |-> Str(<<>>), h2_texts |-> <<>>],
    [h1_count |-> 1, h2_count |-> 1, h3_count |-> 0, h1_text |-> Str(<<"S", "e", "o">>),
     h2_texts |-> <<<<"t", "i", "p">>>>],
    [h1_count |-> 2, h2_count |-> 3, h3_count |-> 1, h1_text |-> Str(<<"S", "e", "o">>),
     h2_texts |-> <<<<" ", "s", "E", "O">>, <<"t", "i", "p">>, <<"s", "e", "o", "\t">>>>],
    [h1_count |-> 1, h2_count |-> 2, h3_count |-> 0, h1_text |-> None,
     h2_texts |-> <<<<"T", "i", "p">>, <<"t", "i", "p">>>>]>>
WordCountChoices == <<0, 149, 150, 299, 300, 375, 499, 625, 801, 1350>>
KeywordChoices == <<
    [keyword |-> None, keyword_count |-> IntVal(3)],
    [keyword |-> Str(<<>>), keyword_count |-> IntVal(0)],
    [keyword |-> Str(Keyword), keyword_count |-> IntVal(0)],
    [keyword |-> Str(Keyword), keyword_count |-> IntVal(1)],
    [keyword |-> Str(Keyword), keyword_count |-> IntVal(21)],
    [keyword |-> Str(Keyword), keyword_count |-> IntVal(700)],
    [keyword |-> Str(Keyword), keyword_count |-> Str(<<"6">>)]>>
ParagraphChoices == <<
    <<>>,
    <<[text |-> <<"s", "e", "o">>, length |-> 3]>>,
    <<[text |-> <<"a", " ", "S", "e", "O">>, length |-> 250], [text |-> <<"b">>, length |-> 301],
      [text |-> <<"c">>, length |-> 10]>>,
    <<[text |-> <<"s", "o">>, length |-> 201], [length |-> 350], [text |-> <<"e">>]>>,
    <<[text |-> <<"x">>, length |-> 1], IntVal(150)>>>>
ImageChoices == <<<<0, 2>>, <<3, 0>>, <<3, 1>>, <<3, 2>>, <<1, 3>>>>
SchemaChoices == <<
    [has_schema_markup |-> FALSE, schema_types |-> <<>>, schema_errors |-> <<"e">>],
    [has_schema_markup |-> TRUE, schema_types |-> <<>>, schema_errors |-> <<"e">>],
    [has_schema_markup |-> TRUE, schema_types |-> <<Product>>, schema_errors |-> <<"e", "f">>],
    [has_schema_markup |-> TRUE, schema_types |-> <<Product>>, schema_errors |-> <<>>]>>
LinkChoices == <<<<0, 0>>, <<2, 0>>, <<0, 1>>, <<1, 3>>>>
Flags == {"has_canonical", "mobile_friendly", "https", "robots_txt_status", "sitemap_status",
          "duplicate_content", "breadcrumb_schema_present", "author_credentials",
          "author_bylines", "contact_info_present"}
LcpChoices == <<None, Num(0), Num(2500), Num(4000), Num(4001), Num(0 - 5)>>
FidChoices == <<None, Num(100), Num(300), Num(301)>>
ClsChoices == <<None, Num(0), Num(100), Num(250), Num(1500)>>
ReadabilityChoices == <<None, Num(29), Num(30), Num(50)>>
LoadTimeChoices == <<None, Num(0), Num(3000), Num(3001)>>
FreshnessChoices == <<None, [t |-> "date", day |-> Today0 - 30], [t |-> "date", day |-> Today0 - 180],
                      [t |-> "date", day |-> Today0 - 365], [t |-> "date", day |-> Today0 - 366]>>
CitationChoices == <<0, 1, 4, 7>>
LastUpdatedChoices == <<None, [t |-> "naive", at |-> Now0 - 90 * HoursPerDay - 23],
                        [t |-> "naive", at |-> Now0 - 366 * HoursPerDay],
                        [t |-> "naive", at |-> Now0 - 731 * HoursPerDay],
                        [t |-> "aware", at |-> Now0]>>

\* ---- the state machine ----
\* pc: "edited" while input signals were written since the last save, "saved" after a save
Init ==
    /\ rec \in {Profiles[i] : i \in 1..Len(Profiles)}
    /\ pc = "edited"
    /\ runs = 0
    /\ edits = 0
    /\ now = Now0
    /\ out = <<>>

\* a caller writes input signals on the instance
Edit(r) ==
    /\ edits < MaxEdits
    /\ runs < MaxRuns
    /\ r # rec
    /\ rec' = r
    /\ pc' = "edited"
    /\ edits' = edits + 1
    /\ UNCHANGED <<runs, now, out>>

SetTitle == \E i \in 1..Len(TitleChoices) : Edit([rec EXCEPT !.title = TitleChoices[i]])
SetMetaDescription ==
    \E i \in 1..Len(MetaChoices) : Edit([rec EXCEPT !.meta_description = MetaChoices[i]])
SetHeaders ==
    \E i \in 1..Len(HeaderChoices) :
        Edit([rec EXCEPT !.h1_count = HeaderChoices[i].h1_count,
                         !.h2_count = HeaderChoices[i].h2_count,
                         !.h3_count = HeaderChoices[i].h3_count,
                         !.h1_text = HeaderChoices[i].h1_text,
                         !.h2_texts = HeaderChoices[i].h2_texts])
SetWordCount ==
    \E i \in 1..Len(WordCountChoices) : Edit([rec EXCEPT !.word_count = WordCountChoices[i]])
SetKeyword ==
    \E i \in 1..Len(KeywordChoices) :
        Edit([rec EXCEPT !.keyword = KeywordChoices[i].keyword,
                         !.keyword_count = KeywordChoices[i].keyword_count])
SetParagraphs ==
    \E i \in 1..Len(ParagraphChoices) : Edit([rec EXCEPT !.paragraphs = ParagraphChoices[i]])
SetImages ==
    \E i \in 1..Len(ImageChoices) :
        Edit([rec EXCEPT !.images_count = ImageChoices[i][1],
                         !.missing_alt_images_count = ImageChoices[i][2]])
SetSchema ==
    \E i \in 1..Len(SchemaChoices) :
        Edit([rec EXCEPT !.has_schema_markup = SchemaChoices[i].has_schema_markup,
                         !.schema_types = SchemaChoices[i].schema_types,
                         !.schema_errors = SchemaChoices[i].schema_errors])
SetLinks ==
    \E i \in 1..Len(LinkChoices) :
        Edit([rec EXCEPT !.internal_links_count = LinkChoices[i][1],
                         !.external_links_count = LinkChoices[i][2]])
ToggleFlag == \E f \in Flags : Edit([rec EXCEPT ![f] = ~rec[f]])
SetVitals ==
    \/ \E i \in 1..Len(LcpChoices) : Edit([rec EXCEPT !.largest_contentful_paint = LcpChoices[i]])
    \/ \E i \in 1..Len(FidChoices) : Edit([rec EXCEPT !.first_input_delay = FidChoices[i]])
    \/ \E i \in 1..Len(ClsChoices) : Edit([rec EXCEPT !.cumulative_layout_shift = ClsChoices[i]])
SetQuality ==
    \/ \E i \in 1..Len(ReadabilityChoices) :
          Edit([rec EXCEPT !.content_readability_score = ReadabilityChoices[i]])
    \/ \E i \in 1..Len(LoadTimeChoices) : Edit([rec EXCEPT !.page_load_time = LoadTimeChoices[i]])
    \/ \E i \in 1..Len(FreshnessChoices) :
          Edit([rec EXCEPT !.content_freshness = FreshnessChoices[i]])
SetTrust ==
    \/ \E i \in 1..Len(CitationChoices) : Edit([rec EXCEPT !.citation_sources = CitationChoices[i]])
    \/ \E i \in 1..Len(LastUpdatedChoices) :
          Edit([rec EXCEPT !.last_updated = LastUpdatedChoices[i]])

\* instance.save(): the analysis run; the record the handler leaves is what is persisted
Save ==
    /\ runs < MaxRuns
    /\ rec' = save(rec, now)
    /\ pc' = "saved"
    /\ runs' = runs + 1
    /\ UNCHANGED <<edits, now, out>>

Next ==
    \/ SetTitle \/ SetMetaDescription \/ SetHeaders \/ SetWordCount \/ SetKeyword
    \/ SetParagraphs \/ SetImages \/ SetSchema \/ SetLinks \/ ToggleFlag
    \/ SetVitals \/ SetQuality \/ SetTrust
    \/ Save

Spec == Init /\ [][Next]_vars

\* ---- properties of an analysis run ----
\* the last save went through the except branch
TookFallback == pc = "saved" /\ rec.recommendations = <<ErrorRecommendation>>
\* the last save completed the try block
RanNormally == pc = "saved" /\ rec.recommendations # <<ErrorRecommendation>>

\* C1: after every save, on the normal path and on the fallback path alike, the stored
\* seo_health_percentage is an integer between 0 and 100, whatever the input signals are
\* (more images without alt text than images, absent optional fields, ...).
ScoreInRange == pc = "saved" => rec.seo_health_percentage \in 0..100
\* a normal run over a page that reports more images without alt text than images
ScoreInRangeWitness ==
    /\ RanNormally
    /\ rec.images_count > 0 /\ rec.missing_alt_images_count > rec.images_count
    /\ FCmp(ScoreSum(rec, now), FZero) < 0
    /\ rec.seo_health_percentage = 0

\* C2: the scoring weights add up to 100 and the sum calculate_seo_health has accumulated
\* when it reaches the final clamp is at most 100, so the upper clamp never changes a result.
WeightBudgetRespected ==
    RanNormally => (WeightTotal = 100 /\ FCmp(ScoreSum(rec, now), FFromInt(100)) <= 0)

\* what a caller reads off the record after a run
AnalysisResult(r) ==
    [score |-> r.seo_health_percentage, grade |-> get_seo_grade(r),
     recommendations |-> r.recommendations, thin_content |-> r.thin_content,
     critical |-> has_critical_errors(r)]

\* C3: a save that directly follows a save, with no input signal written in between and
\* the same clock, leaves the same result: score, grade, recommendation list, thin_content
\* flag and has_critical_errors value.
SaveIdempotent ==
    [][(pc = "saved" /\ runs' = runs + 1) => AnalysisResult(rec') = AnalysisResult(rec)]_vars

\* the issues in the order generate_recommendations appends them, before its sort
DetectedBySave(r) ==
    DetectedRecommendations(calculate_keyword_stats(UpdateLengths(r).r).r).issues
Priorities == {"critical", "high", "medium", "low"}
WithPriority(s, p) == LET Has(x) == x.priority = p IN SelectSeq(s, Has)
\* the stage of generate_recommendations that appends entries of a type
StageRank(type) ==
    CASE type = "title" -> 1
      [] type = "meta_description" -> 2
      [] type = "security" -> 3
      [] type = "headers" -> 4
      [] type \in {"paragraph_length", "keyword_distribution"} -> 5
      [] type = "schema" -> 6
      [] type = "content_quality" -> 7
      [] type = "keyword" -> 8
      [] type = "technical" -> 9
      [] type = "performance" -> 10
      [] OTHER -> 11
StableSortOf(sorted, detected) ==
    /\ Len(sorted) = Len(detected)
    /\ \A i, j \in 1..Len(sorted) :
          i < j => PriorityRank(sorted[i].priority) <= PriorityRank(sorted[j].priority)
    /\ \A p \in Priorities : WithPriority(sorted, p) = WithPriority(detected, p)
    /\ \A i, j \in 1..Len(sorted) :
          (i < j /\ sorted[i].priority = sorted[j].priority)
              => StageRank(sorted[i].type) <= StageRank(sorted[j].type)

\* C4: the list a completed run stores is the detected issues sorted by priority rank
\* critical < high < medium < low; no entry precedes one of strictly higher priority, and
\* entries of one priority keep their detection order (title, meta description, security,
\* headers, paragraphs, schema, content quality, keyword, technical, performance).
RecommendationsStablySorted ==
    [][(runs' = runs + 1 /\ ~TryBlockRaises(rec, now))
          => StableSortOf(rec'.recommendations, DetectedBySave(rec))]_vars
\* a stored list of at least three priorities in which the sort moved an entry of a later
\* stage in front of one of an earlier stage, and one priority holds several types
RecommendationsStablySortedWitness ==
    /\ RanNormally
    /\ Cardinality({rec.recommendations[i].priority : i \in 1..Len(rec.recommendations)}) >= 3
    /\ \E i, j \in 1..Len(rec.recommendations) :
          /\ i < j
          /\ PriorityRank(rec.recommendations[i].priority)
                < PriorityRank(rec.recommendations[j].priority)
          /\ StageRank(rec.recommendations[i].type) > StageRank(rec.recommendations[j].type)
    /\ \E i, j \in 1..Len(rec.recommendations) :
          /\ i < j
          /\ rec.recommendations[i].priority = rec.recommendations[j].priority
          /\ StageRank(rec.recommendations[i].type) < StageRank(rec.recommendations[j].type)

\* ---- grading stored scores ----
\* a record is loaded with a stored score, graded, and the next score up is loaded;
\* out collects [score, grade] of every call of get_seo_grade
InitGrade ==
    /\ rec \in {[DefaultRecord EXCEPT !.seo_health_percentage = s] : s \in 0..100}
    /\ pc = "loaded"
    /\ runs = 0
    /\ edits = 0
    /\ now = Now0
    /\ out = <<>>
GetGrade ==
    /\ pc = "loaded"
    /\ out' = Append(out, [score |-> rec.seo_health_percentage, grade |-> get_seo_grade(rec)])
    /\ pc' = "graded"
    /\ UNCHANGED <<rec, runs, edits, now>>
LoadScore ==
    /\ pc = "graded"
    /\ rec.seo_health_percentage < 100
    /\ rec' = [rec EXCEPT !.seo_health_percentage = rec.seo_health_percentage + 1]
    /\ pc' = "loaded"
    /\ UNCHANGED <<runs, edits, now, out>>
NextGrade == GetGrade \/ LoadScore
SpecGrade == InitGrade /\ [][NextGrade]_vars

GradeRank(g) ==
    CASE g = "F" -> 0
      [] g = "D" -> 1
      [] g = "C" -> 2
      [] g = "B" -> 3
      [] g = "A" -> 4
      [] g = "A+" -> 5
\* C5: get_seo_grade partitions the scores 0..100: >= 90 is A+, 80..89 A, 70..79 B,
\* 60..69 C, 50..59 D, below 50 F, one grade for every score, and a higher score never
\* gets a lower grade.
GradePartition ==
    /\ \A i \in 1..Len(out) :
          /\ out[i].grade \in {"A+", "A", "B", "C", "D", "F"}
          /\ (out[i].grade = "A+") <=> (out[i].score >= 90)
          /\ (out[i].grade = "A") <=> (out[i].score \in 80..89)
          /\ (out[i].grade = "B") <=> (out[i].score \in 70..79)
          /\ (out[i].grade = "C") <=> (out[i].score \in 60..69)
          /\ (out[i].grade = "D") <=> (out[i].score \in 50..59)
          /\ (out[i].grade = "F") <=> (out[i].score < 50)
    /\ \A i, j \in 1..Len(out) :
          out[i].score <= out[j].score => GradeRank(out[i].grade) <= GradeRank(out[j].grade)
\* the scores on both sides of the lowest and of the highest boundary have been graded
GradePartitionWitness ==
    /\ \E i \in 1..Len(out) : out[i] = [score |-> 49, grade |-> "F"]
    /\ \E i \in 1..Len(out) : out[i] = [score |-> 50, grade |-> "D"]
    /\ \E i \in 1..Len(out) : out[i] = [score |-> 89, grade |-> "A"]
    /\ \E i \in 1..Len(out) : out[i] = [score |-> 90, grade |-> "A+"]

HasCriticalRecommendation(r) ==
    \E i \in 1..Len(r.recommendations) : r.recommendations[i].priority = "critical"
\* C6: after a save, on either path, has_critical_errors() is true exactly when the
\* stored list holds a critical recommendation or https is false; the checks of the title,
\* of h1_count and of the keyword count never decide the value.
CriticalErrorsFromList ==
    pc = "saved" => (has_critical_errors(rec) <=> (HasCriticalRecommendation(rec) \/ ~rec.https))
\* a completed run over an https page without an H1: the h1_count check is true and so is
\* the scan of the list
CriticalErrorsFromListWitness ==
    /\ RanNormally
    /\ rec.https /\ rec.h1_count = 0 /\ Truthy(rec.title) /\ rec.title_length > 0
    /\ has_critical_errors(rec) /\ HasCriticalRecommendation(rec)

\* C7: when a step of the try block of save raises, save still returns: the record is
\* stored with seo_health_percentage 0 and a list of exactly one entry, the critical
\* 'Error in analysis calculation'.
FailureGivesFallback ==
    [][(runs' = runs + 1 /\ TryBlockRaises(rec, now))
          => /\ pc' = "saved"
             /\ rec'.seo_health_percentage = 0
             /\ Len(rec'.recommendations) = 1
             /\ rec'.recommendations[1].priority = "critical"
             /\ rec'.recommendations[1].type = "error"
             /\ rec'.recommendations[1].message.id = "analysis_error"]_vars
\* a save that failed in calculate_seo_health, after generate_recommendations had
\* stored its list
FailureGivesFallbackWitness ==
    /\ TookFallback
    /\ rec.last_updated.t = "aware"
    /\ IsNone(rec.title) \/ IsStr(rec.title)
    /\ rec.keyword_count.t = "int"
    /\ \A i \in 1..Len(rec.paragraphs) : IsDict(rec.paragraphs[i])
    /\ rec.seo_health_percentage = 0

\* the fields a run computes besides the score and the list
DerivedFields == {"title_length", "meta_description_length", "keyword_density",
                  "recommended_keyword_count", "thin_content"}
\* between before and after, a derived field was rewritten while thin_content was left
\* at a value that contradicts word_count
HalfComputed(before, after) ==
    /\ \E f \in DerivedFields : after[f] # before[f]
    /\ after.thin_content # (after.word_count < 300)
\* C8: a save whose try block raises is all-or-nothing: besides the fallback score and
\* the error entry, it does not leave one derived field (title_length,
\* meta_description_length, keyword_density, recommended_keyword_count, thin_content)
\* updated and another one stale.
FailedRunAllOrNothing ==
    [][(runs' = runs + 1 /\ TryBlockRaises(rec, now)) => ~HalfComputed(rec, rec')]_vars

\* the fields a caller writes
InputFields ==
    (DOMAIN DefaultRecord \ DerivedFields) \ {"seo_health_percentage", "recommendations"}
\* r carries the input signals of the end-to-end example
ExampleInputs(r) == \A f \in InputFields : r[f] = ExampleRecord[f]

\* the end-to-end example (55-character title, no meta description, one H1, three H2,
\* two H3, 600 words, keyword 'seo' counted 6 times, four paragraphs of length 150, two
\* images with alt text, canonical, Article schema, https, mobile-friendly, LCP 2000,
\* FID 50, CLS 0.05) scores in 80..89 and is graded A
ExampleScoresInEighties ==
    (pc = "saved" /\ ExampleInputs(rec))
        => (rec.seo_health_percentage \in 80..89 /\ get_seo_grade(rec) = "A")
\* C9: the end-to-end example scores 76 and is graded B.
ExampleScores76 ==
    (pc = "saved" /\ ExampleInputs(rec))
        => (rec.seo_health_percentage = 76 /\ get_seo_grade(rec) = "B")
ExampleScores76Witness ==
    /\ pc = "saved" /\ ExampleInputs(rec)
    /\ rec.title_length = 55 /\ rec.keyword_density = 100
    /\ FCmp(ScoreSum(rec, now), FFromInt(76)) = 0

\* C10: for the end-to-end example the stored list holds a high-priority 'missing meta
\* description' entry, the Core Web Vitals sub-score is 100 and has_critical_errors() is
\* false.
ExampleFindings ==
    (pc = "saved" /\ ExampleInputs(rec))
        => /\ \E i \in 1..Len(rec.recommendations) :
                rec.recommendations[i]
                    = Recommendation("meta_description", "high", "meta_missing", <<>>)
           /\ calculate_core_web_vitals_score(rec) = 100
           /\ ~has_critical_errors(rec)
ExampleFindingsWitness ==
    /\ RanNormally /\ ExampleInputs(rec)
    /\ IsNone(rec.meta_description)
    /\ rec.recommendations[1].type = "meta_description"
    /\ Len(rec.recommendations) = 3

\* ---- the contributions to the score ----
\* the weight behind each entry of ScoreTerms
TermWeights == <<"title", "meta_description", "h1", "headers_structure", "headers_structure",
                 "headers_unique", "images", "keywords", "keyword_distribution",
                 "paragraph_length", "content_length", "canonical", "schema", "https",
                 "mobile_friendly", "links", "core_vitals", "eeat", "technical_seo",
                 "content_freshness">>
\* what the component called name adds to the score: the sum of its entries of terms
RECURSIVE ComponentContribution(_, _, _)
ComponentContribution(terms, name, k) ==
    IF k = 0 THEN FZero
    ELSE IF TermWeights[k] = name
    THEN FAdd(ComponentContribution(terms, name, k - 1), terms[k])
    ELSE ComponentContribution(terms, name, k - 1)
ContributionWithinWeight(terms, name) ==
    /\ FCmp(ComponentContribution(terms, name, Len(terms)), FZero) >= 0
    /\ FCmp(ComponentContribution(terms, name, Len(terms)), Weight(name)) <= 0
ContributionsWithinWeights(terms) == \A name \in WeightNames : ContributionWithinWeight(terms, name)

\* C11: in a completed run every component adds to the score an amount between 0 and
\* its weight (images within [0,4], headers_structure within [0,4], core_vitals within
\* [0,15], ...): never a negative amount, never more than the weight.
ContributionsBounded == RanNormally => ContributionsWithinWeights(ScoreTerms(rec, now))

\* C13: after every save keyword_density lies between 0 and 100 (kept in hundredths:
\* between 0 and 10000), also when keyword_count exceeds word_count.
DensityWithinPercent == pc = "saved" => (0 <= rec.keyword_density /\ rec.keyword_density <= 10000)

KeywordEntries(list) == LET IsKeyword(x) == x.type = "keyword" IN SelectSeq(list, IsKeyword)
\* C14: for a page of no words with a keyword set (counted 0 times) a run stores
\* keyword_density 0 and completes, and the only entry of type keyword in the list is the
\* 'keyword not found' one: no under-use entry, no density entry.
NoWordsOnlyNotFound ==
    (RanNormally /\ rec.word_count = 0 /\ Truthy(rec.keyword) /\ rec.keyword_count = IntVal(0))
        => /\ calculate_keyword_stats(rec).ok
           /\ rec.keyword_density = 0
           /\ KeywordEntries(rec.recommendations)
                = <<Recommendation("keyword", "critical", "keyword_not_found", <<rec.keyword.v>>)>>

\* C20: after every save, completed or not, thin_content equals (word_count < 300).
ThinContentDerived == pc = "saved" => (rec.thin_content = (rec.word_count < 300))

\* ---- calculate_keyword_stats on its own: one keyword, growing word counts ----
MaxWordCount == 1300

StatsKeywordChoices ==
    << [keyword |-> None, keyword_count |-> IntVal(3)],
       [keyword |-> Str(<<>>), keyword_count |-> IntVal(3)],
       [keyword |-> Str(Keyword), keyword_count |-> IntVal(0)],
       [keyword |-> Str(Keyword), keyword_count |-> IntVal(1)],
       [keyword |-> Str(Keyword), keyword_count |-> IntVal(2)],
       [keyword |-> Str(Keyword), keyword_count |-> IntVal(30)],
       [keyword |-> Str(Keyword), keyword_count |-> Str(<<"6">>)] >>

StatsRecord(c) ==
    [DefaultRecord EXCEPT !.keyword = c.keyword, !.keyword_count = c.keyword_count]

InitStats ==
    /\ rec \in {StatsRecord(StatsKeywordChoices[i]) : i \in 1..Len(StatsKeywordChoices)}
    /\ pc = "loaded"
    /\ runs = 0
    /\ edits = 0
    /\ now = Now0
    /\ out = <<>>

LastOf(s) == IF Len(s) = 0 THEN <<>> ELSE <<s[Len(s)]>>

StatsOutcome(r) ==
    [word_count |-> r.word_count, recommended |-> r.recommended_keyword_count]

StoreStats(res) ==
    /\ rec' = res.r
    /\ pc' = IF res.ok THEN "computed" ELSE "raised"
    /\ out' = IF res.ok THEN Append(LastOf(out), StatsOutcome(res.r)) ELSE out

ComputeStats ==
    /\ pc = "loaded"
    /\ StoreStats(calculate_keyword_stats(rec))
    /\ UNCHANGED <<runs, edits, now>>

MoreWords ==
    /\ pc \in {"computed", "raised"}
    /\ rec.word_count < MaxWordCount
    /\ rec' = [rec EXCEPT !.word_count = @ + 1]
    /\ pc' = "loaded"
    /\ UNCHANGED <<runs, edits, now, out>>

NextStats == ComputeStats \/ MoreWords

SpecStats == InitStats /\ [][NextStats]_vars

Distance(a, b) == IF a >= b THEN a - b ELSE b - a

\* n is an integer nearest to a / b
NearestTo(n, a, b) == 2 * Distance(n * b, a) <= b

\* C12: calculate_keyword_stats returns with density 0 when the keyword is absent or
\* word_count is 0 (whatever keyword_count holds), and otherwise stores
\* keyword_count / word_count * 100 rounded to the nearest hundredth (30 in 1000 gives 3.00).
DensityComputed ==
    /\ (pc # "loaded" /\ (~Truthy(rec.keyword) \/ rec.word_count = 0))
           => (pc = "computed" /\ rec.keyword_density = 0)
    /\ (pc = "computed" /\ Truthy(rec.keyword) /\ rec.word_count > 0)
           => NearestTo(rec.keyword_density, rec.keyword_count.n * 10000, rec.word_count)
    /\ (pc = "computed" /\ Truthy(rec.keyword) /\ rec.keyword_count = IntVal(30)
           /\ rec.word_count = 1000) => rec.keyword_density = 300

DensityComputedWitness ==
    /\ pc = "computed"
    /\ Truthy(rec.keyword)
    /\ rec.keyword_count = IntVal(2)
    /\ rec.word_count = 300
    /\ rec.keyword_density = 67

ExpectedRecommended(r, wc) ==
    IF wc <= 300 THEN r = 1
    ELSE IF wc <= 800 THEN \E n \in 0..wc : NearestTo(n, wc, 250) /\ r = MaxOf(2, n)
    ELSE \E n \in 0..wc : NearestTo(n, wc, 300) /\ r = MaxOf(3, n)

\* C15: with a keyword and word_count > 0, recommended_keyword_count is 1 up to 300 words,
\* max(2, round(word_count / 250)) up to 800 and max(3, round(word_count / 300)) above
\* (ties going to the even integer), and it never decreases when word_count grows.
RecommendedCountBanded ==
    /\ (pc = "computed" /\ Truthy(rec.keyword) /\ rec.word_count > 0)
           => /\ ExpectedRecommended(rec.recommended_keyword_count, rec.word_count)
              /\ rec.word_count = 625 => rec.recommended_keyword_count = 2
              /\ rec.word_count = 1050 => rec.recommended_keyword_count = 4
    /\ (Len(out) = 2 /\ out[1].word_count <= out[2].word_count)
           => out[1].recommended <= out[2].recommended

RecommendedCountBandedWitness ==
    /\ pc = "computed"
    /\ Truthy(rec.keyword)
    /\ out = <<[word_count |-> 800, recommended |-> 3], [word_count |-> 801, recommended |-> 3]>>

\* ---- calculate_core_web_vitals_score on its own: every combination of the metrics ----
VitalsRecord(i, j, k) ==
    [DefaultRecord EXCEPT !.largest_contentful_paint = LcpChoices[i],
                          !.first_input_delay = FidChoices[j],
                          !.cumulative_layout_shift = ClsChoices[k]]

InitVitals ==
    /\ rec \in {VitalsRecord(i, j, k) : i \in 1..Len(LcpChoices), j \in 1..Len(FidChoices),
                                        k \in 1..Len(ClsChoices)}
    /\ pc = "loaded"
    /\ runs = 0
    /\ edits = 0
    /\ now = Now0
    /\ out = <<>>

ComputeVitals ==
    /\ pc = "loaded"
    /\ pc' = "computed"
    /\ out' = <<calculate_core_web_vitals_score(rec)>>
    /\ UNCHANGED <<rec, runs, edits, now>>

NextVitals == ComputeVitals

SpecVitals == InitVitals /\ [][NextVitals]_vars

\* points of one metric: nothing when absent, else by band
Band(metric, best, middle, points) ==
    IF IsNone(metric) THEN 0
    ELSE IF metric.v <= best THEN points[1]
    ELSE IF metric.v <= middle THEN points[2]
    ELSE points[3]

LcpPoints(r) == Band(r.largest_contentful_paint, 2500, 4000, <<35, 20, 5>>)
FidPoints(r) == Band(r.first_input_delay, 100, 300, <<25, 15, 5>>)
ClsPoints(r) == Band(r.cumulative_layout_shift, 100, 250, <<40, 25, 10>>)

AllVitalsBest(r) ==
    /\ ~IsNone(r.largest_contentful_paint) /\ r.largest_contentful_paint.v <= 2500
    /\ ~IsNone(r.first_input_delay) /\ r.first_input_delay.v <= 100
    /\ ~IsNone(r.cumulative_layout_shift) /\ r.cumulative_layout_shift.v <= 100

AllVitalsAbsent(r) ==
    /\ IsNone(r.largest_contentful_paint)
    /\ IsNone(r.first_input_delay)
    /\ IsNone(r.cumulative_layout_shift)

\* C16: calculate_core_web_vitals_score returns the sum of the LCP (35/20/5), FID (25/15/5)
\* and CLS (40/25/10) band points, an absent metric giving 0; the value lies in 0..100, is 100
\* exactly when all three are present in their best band and 0 exactly when all are absent.
VitalsScoreBanded ==
    pc = "computed" =>
        /\ out[1] = LcpPoints(rec) + FidPoints(rec) + ClsPoints(rec)
        /\ out[1] \in 0..100
        /\ out[1] = 100 <=> AllVitalsBest(rec)
        /\ out[1] = 0 <=> AllVitalsAbsent(rec)

VitalsScoreBandedWitness ==
    /\ pc = "computed"
    /\ IsNone(rec.largest_contentful_paint)
    /\ rec.first_input_delay = Num(300)
    /\ rec.cumulative_layout_shift = Num(1500)
    /\ out = <<25>>

\* ---- calculate_eeat_score on its own: the trust signals, growing citation counts ----
MaxCitations == 7

EeatLastUpdatedChoices ==
    << None,
       [t |-> "naive", at |-> Now0 + 2 * HoursPerDay],
       [t |-> "naive", at |-> Now0 - 90 * HoursPerDay - 23],
       [t |-> "naive", at |-> Now0 - 91 * HoursPerDay],
       [t |-> "naive", at |-> Now0 - 365 * HoursPerDay],
       [t |-> "naive", at |-> Now0 - 366 * HoursPerDay],
       [t |-> "naive", at |-> Now0 - 730 * HoursPerDay],
       [t |-> "naive", at |-> Now0 - 731 * HoursPerDay],
       [t |-> "aware", at |-> Now0 - 30 * HoursPerDay] >>

EeatRecord(credentials, bylines, contact, i) ==
    [DefaultRecord EXCEPT !.author_credentials = credentials,
                          !.author_bylines = bylines,
                          !.contact_info_present = contact,
                          !.last_updated = EeatLastUpdatedChoices[i]]

InitEeat ==
    /\ rec \in {EeatRecord(c, b, k, i) : c \in BOOLEAN, b \in BOOLEAN, k \in BOOLEAN,
                                        i \in 1..Len(EeatLastUpdatedChoices)}
    /\ pc = "loaded"
    /\ runs = 0
    /\ edits = 0
    /\ now = Now0
    /\ out = <<>>

StoreEeat(res) ==
    /\ pc' = IF res.ok THEN "computed" ELSE "raised"
    /\ out' = IF res.ok THEN Append(LastOf(out), res.v) ELSE out

ComputeEeat ==
    /\ pc = "loaded"
    /\ StoreEeat(calculate_eeat_score(rec, now))
    /\ UNCHANGED <<rec, runs, edits, now>>

MoreCitations ==
    /\ pc \in {"computed", "raised"}
    /\ rec.citation_sources < MaxCitations
    /\ rec' = [rec EXCEPT !.citation_sources = @ + 1]
    /\ pc' = "loaded"
    /\ UNCHANGED <<runs, edits, now, out>>

NextEeat == ComputeEeat \/ MoreCitations

SpecEeat == InitEeat /\ [][NextEeat]_vars

AgeInDays(r, clock) == (clock - r.last_updated.at) \div HoursPerDay

FreshnessPoints(r, clock) ==
    IF IsNone(r.last_updated) THEN 0
    ELSE IF AgeInDays(r, clock) <= 90 THEN 15
    ELSE IF AgeInDays(r, clock) <= 365 THEN 10
    ELSE IF AgeInDays(r, clock) <= 730 THEN 5
    ELSE 0

SignalPoints(r, clock) ==
    (IF r.author_credentials THEN 25 ELSE 0)
    + (IF r.author_bylines THEN 20 ELSE 0)
    + MinOf(25, 5 * r.citation_sources)
    + (IF r.contact_info_present THEN 15 ELSE 0)
    + FreshnessPoints(r, clock)

\* a returned E-E-A-T score is the sum of the capped signals, within 0..100, and not
\* below the score returned for one citation fewer
EeatSumOfSignals ==
    /\ out[Len(out)] = SignalPoints(rec, now)
    /\ out[Len(out)] \in 0..100
    /\ Len(out) = 2 => out[1] <= out[2]

EeatSumWhenReturned == pc = "computed" => EeatSumOfSignals

\* C17: calculate_eeat_score always returns, and the value is the sum of +25 credentials,
\* +20 bylines, +min(25, 5 * citation_sources), +15 contact info and 15/10/5/0 for a
\* last_updated age of <=90 / <=365 / <=730 / more days (0 when absent), within 0..100 and
\* non-decreasing in citation_sources.
EeatAlwaysReturnsSum == pc # "loaded" => (pc = "computed" /\ EeatSumOfSignals)

\* the record holds what the extraction contract allows: every optional field absent or
\* of its declared type, any counts, any timings
WithinInputContract(r) ==
    /\ IsNone(r.title) \/ IsStr(r.title)
    /\ r.keyword_count.t = "int"
    /\ \A i \in 1..Len(r.paragraphs) : IsDict(r.paragraphs[i])

\* C18: for inputs within the contract (optional fields absent or present, zero counts,
\* empty sequences, out-of-range timings) a save never takes the error fallback.
ContractInputsRunNormally == (pc = "saved" /\ WithinInputContract(rec)) => ~TookFallback

\* the record with the caller's input signals of r and nothing left by an earlier run
InputsOnly(r) ==
    [f \in DOMAIN DefaultRecord |-> IF f \in InputFields THEN r[f] ELSE DefaultRecord[f]]

\* the list a save stores for r
StoredList(r, clock) ==
    IF TryBlockRaises(r, clock) THEN <<ErrorRecommendation>>
    ELSE BeforeHealth(r).r.recommendations

\* the list a save stores is the one it would store had the prior list been empty
PriorListDiscarded ==
    [][(runs' = runs + 1)
          => rec'.recommendations = StoredList([rec EXCEPT !.recommendations = <<>>], now)]_vars

\* C19: the list a save stores depends only on the current input signals: it is the list
\* the same signals give on a record no run has touched, whatever the record held before.
RecommendationsFromInputsOnly ==
    [][(runs' = runs + 1) => rec'.recommendations = StoredList(InputsOnly(rec), now)]_vars

\* the categories a recommendation may carry
Categories == {"title", "meta_description", "headers", "images", "schema", "keyword",
               "keyword_distribution", "paragraph_length", "content_quality", "technical",
               "security", "performance"}

WellTyped(list) ==
    \A i \in 1..Len(list) : list[i].type \in Categories /\ list[i].priority \in Priorities

\* the list of a completed run carries only known categories and priorities
NormalRunWellTyped == RanNormally => WellTyped(rec.recommendations)

\* C21: after every save, the fallback included, each stored recommendation has its type
\* among the twelve categories and its priority among critical, high, medium, low.
RecommendationsWellTyped == pc = "saved" => WellTyped(rec.recommendations)

\* the two lengths the data model lists among the caller's signals
SuppliedLengths == {"title_length", "meta_description_length"}

Unchanged(fields, before, after) == \A f \in fields : after[f] = before[f]

\* a save leaves every signal the caller writes, other than the two lengths, as it was
SignalsPreserved == [][(runs' = runs + 1) => Unchanged(InputFields, rec, rec')]_vars

\* C22: a save treats the caller's signals as read-only: title_length,
\* meta_description_length and every other input field keep the supplied value; only
\* keyword_density, recommended_keyword_count, recommendations, seo_health_percentage
\* and thin_content are written.
InputsReadOnly ==
    [][(runs' = runs + 1) => Unchanged(InputFields \cup SuppliedLengths, rec, rec')]_vars

Holds(list, entry) == \E i \in 1..Len(list) : list[i] = entry

SchemaErrorsEntry(r) ==
    Recommendation("schema", "high", "schema_errors", <<Len(r.schema_errors)>>)

\* the 'no schema markup' entry is stored exactly when has_schema_markup is false
SchemaMissingExact ==
    RanNormally => (Holds(rec.recommendations, Recommendation("schema", "high", "schema_missing", <<>>))
                        <=> ~rec.has_schema_markup)

\* C23: whenever has_schema_markup is true and schema_errors is non-empty, whatever
\* schema_types holds, the list carries the high-priority schema entry with the error
\* count; and it carries the high-priority 'no schema markup' entry exactly when
\* has_schema_markup is false.
SchemaErrorsAlwaysReported ==
    RanNormally =>
        /\ (rec.has_schema_markup /\ Len(rec.schema_errors) > 0)
               => Holds(rec.recommendations, SchemaErrorsEntry(rec))
        /\ Holds(rec.recommendations, Recommendation("schema", "high", "schema_missing", <<>>))
               <=> ~rec.has_schema_markup

\* ---- analyze_headers_structure and the unique-headers term on their own ----
MaxH2 == 2

H1TextChoices ==
    << None, Str(<<>>), Str(<<" ", " ">>), Str(<<"S", "e", "o">>), Str(<<" ", "s", "e", "o">>),
       Str(<<"t", "i", "p">>), Str(<<"É", "t", "é", "\r">>), Str(<<"U+0100", "U+03A3">>) >>

H2Texts == { <<>>, <<"s", "e", "o">>, <<" ", "S", "E", "O", "\t">>, <<"t", "i", "p">>,
             <<"U+00A0", "é", "T", "É">>, <<"U+0101", "U+03C2">> }

RECURSIVE ListsUpTo(_, _)
ListsUpTo(S, n) ==
    IF n = 0 THEN {<<>>}
    ELSE ListsUpTo(S, n - 1) \cup {Append(l, x) : l \in ListsUpTo(S, n - 1), x \in S}

HeadersRecord(i, texts) ==
    [DefaultRecord EXCEPT !.h1_text = H1TextChoices[i], !.h2_texts = texts,
                          !.h1_count = 1, !.h2_count = Len(texts)]

InitHeaders ==
    /\ rec \in {HeadersRecord(i, l) : i \in 1..Len(H1TextChoices), l \in ListsUpTo(H2Texts, MaxH2)}
    /\ pc = "loaded"
    /\ runs = 0
    /\ edits = 0
    /\ now = Now0
    /\ out = <<>>

\* what calculate_seo_health adds for one weight
Contribution(r, clock, name) ==
    ComponentContribution(ScoreTerms(r, clock), name, Len(TermWeights))

ComputeHeaders ==
    /\ pc = "loaded"
    /\ pc' = "computed"
    /\ out' = <<analyze_headers_structure(rec), Contribution(rec, now, "headers_unique")>>
    /\ UNCHANGED <<rec, runs, edits, now>>

NextHeaders == ComputeHeaders

SpecHeaders == InitHeaders /\ [][NextHeaders]_vars

\* the indices i at which the trimmed, lower-cased h2_texts[i] equals the trimmed,
\* lower-cased h1_text; an absent h1_text has no text to compare
EqualTrimmed(r) ==
    IF ~IsStr(r.h1_text) THEN {}
    ELSE {i \in 1..Len(r.h2_texts) : Strip(Lower(r.h2_texts[i])) = Strip(Lower(r.h1_text.v))}

\* the same indices, for a non-empty h1_text only
EqualTrimmedToNonEmptyH1(r) == IF Truthy(r.h1_text) THEN EqualTrimmed(r) ELSE {}

IdenticalIssues(list) ==
    LET IsIdentical(x) == x.message.id = "h1_h2_identical" IN SelectSeq(list, IsIdentical)

IdenticalIssue(r, i) == Recommendation("headers", "high", "h1_h2_identical", <<i, r.h1_text.v>>)

\* C24 as claimed: analyze_headers_structure returns exactly one high-priority 'H1 and
\* H2 #i identical' issue for each index i whose trimmed, lower-cased H2 text equals the
\* trimmed, lower-cased H1 text, and none otherwise, and calculate_seo_health adds the
\* headers_unique weight exactly when there is no such issue. An empty h1_text against an
\* empty (or blank) H2 text refutes it: the two are equal once trimmed, and the guard of
\* models.py:187 skips the comparison.
IdenticalHeadersPerEqualIndex ==
    pc = "computed" =>
        /\ Len(IdenticalIssues(out[1])) = Cardinality(EqualTrimmed(rec))
        /\ \A i \in EqualTrimmed(rec) : Holds(IdenticalIssues(out[1]), IdenticalIssue(rec, i))
        /\ IF Len(IdenticalIssues(out[1])) = 0
           THEN FCmp(out[2], Weight("headers_unique")) = 0
           ELSE FCmp(out[2], FZero) = 0

\* C24 as amended: for a non-empty h1_text, analyze_headers_structure returns exactly one
\* high-priority 'H1 and H2 #i identical' issue for each index i whose trimmed,
\* lower-cased H2 text equals the trimmed, lower-cased H1 text, and none otherwise; for an
\* absent or empty h1_text it returns none; and calculate_seo_health adds the headers_unique
\* weight exactly when there is no such issue, and nothing otherwise.
IdenticalHeadersPerIndex ==
    pc = "computed" =>
        /\ Len(IdenticalIssues(out[1])) = Cardinality(EqualTrimmedToNonEmptyH1(rec))
        /\ \A i \in EqualTrimmedToNonEmptyH1(rec) :
              Holds(IdenticalIssues(out[1]), IdenticalIssue(rec, i))
        /\ IF Len(IdenticalIssues(out[1])) = 0
           THEN FCmp(out[2], Weight("headers_unique")) = 0
           ELSE FCmp(out[2], FZero) = 0

IdenticalHeadersPerIndexWitness ==
    /\ pc = "computed"
    /\ rec.h1_text = Str(<<" ", "s", "e", "o">>)
    /\ rec.h2_texts = << <<" ", "S", "E", "O", "\t">>, <<"s", "e", "o">> >>
    /\ Len(IdenticalIssues(out[1])) = 2
    /\ FCmp(out[2], FZero) = 0

\* ---- analyze_paragraphs and the keyword_distribution term on their own ----
MaxParagraphs == 10

ParagraphKeywordChoices ==
    << [keyword |-> None, keyword_count |-> IntVal(3)],
       [keyword |-> Str(<<>>), keyword_count |-> IntVal(3)],
       [keyword |-> Str(Keyword), keyword_count |-> IntVal(0)],
       [keyword |-> Str(Keyword), keyword_count |-> IntVal(3)],
       [keyword |-> Str(<<"S", "E", "O">>), keyword_count |-> IntVal(1)] >>

\* n paragraphs of which the first k hold the keyword
ParagraphsWith(k, n) ==
    [i \in 1..n |-> IF i <= k THEN [text |-> <<"a", " ", "S", "e", "O", "s">>, length |-> 6]
                     ELSE [text |-> <<"s", "e", " ", "o">>, length |-> 4]]

ParagraphsRecord(c, k, n) ==
    [DefaultRecord EXCEPT !.keyword = c.keyword, !.keyword_count = c.keyword_count,
                          !.paragraphs = ParagraphsWith(k, n)]

InitParagraphs ==
    /\ rec \in {ParagraphsRecord(ParagraphKeywordChoices[c], k, n) :
                   c \in 1..Len(ParagraphKeywordChoices), k \in 0..MaxParagraphs,
                   n \in 0..MaxParagraphs}
    /\ pc = "loaded"
    /\ runs = 0
    /\ edits = 0
    /\ now = Now0
    /\ out = <<>>

ComputeParagraphs ==
    /\ pc = "loaded"
    /\ pc' = "computed"
    /\ out' = <<analyze_paragraphs(rec).issues, Contribution(rec, now, "keyword_distribution")>>
    /\ UNCHANGED <<rec, runs, edits, now>>

NextParagraphs == ComputeParagraphs

SpecParagraphs == InitParagraphs /\ [][NextParagraphs]_vars

DistributionIssues(list) ==
    LET IsDistribution(x) == x.type = "keyword_distribution" IN SelectSeq(list, IsDistribution)

\* the priorities of the keyword_distribution issues the coverage with / total calls for
ExpectedDistribution(with, total) ==
    IF 5 * with < total THEN <<"medium">>
    ELSE IF 10 * with > 7 * total THEN <<"high">>
    ELSE <<>>

PrioritiesOf(list) == [i \in 1..Len(list) |-> list[i].priority]

\* at most one keyword_distribution issue, only with a keyword and paragraphs: medium for
\* a coverage below 0.2, high above 0.7, none in between
DistributionIssueBanded ==
    /\ Len(DistributionIssues(out[1])) <= 1
    /\ PrioritiesOf(DistributionIssues(out[1])) =
          IF Truthy(rec.keyword) /\ Len(rec.paragraphs) > 0
          THEN ExpectedDistribution(ParagraphsWithKeyword(rec), Len(rec.paragraphs))
          ELSE <<>>

FullDistributionWeight == FCmp(out[2], Weight("keyword_distribution")) = 0

\* keyword_distribution issues are banded as stated and, whenever keyword_count > 0, the
\* full keyword_distribution weight is added exactly when no such issue is returned
FullWeightIffNoIssue ==
    pc = "computed" =>
        /\ DistributionIssueBanded
        /\ rec.keyword_count.n > 0
              => (FullDistributionWeight <=> Len(DistributionIssues(out[1])) = 0)

\* C25: analyze_paragraphs returns at most one keyword_distribution issue, only with a
\* keyword and paragraphs (medium below a coverage of 0.2, high above 0.7, none in
\* between); with a keyword, keyword_count > 0 and at least one paragraph the full
\* keyword_distribution weight is added exactly when no such issue is returned, and
\* without a keyword, with keyword_count = 0 or without paragraphs nothing is added.
FullWeightIffNoIssueWithParagraphs ==
    pc = "computed" =>
        /\ DistributionIssueBanded
        /\ IF KeywordCounted(rec) /\ Len(rec.paragraphs) > 0
           THEN FullDistributionWeight <=> Len(DistributionIssues(out[1])) = 0
           ELSE FCmp(out[2], FZero) = 0

FullWeightIffNoIssueWithParagraphsWitness ==
    /\ pc = "computed"
    /\ rec.keyword = Str(Keyword)
    /\ rec.keyword_count = IntVal(3)
    /\ Len(rec.paragraphs) = 10
    /\ ParagraphsWithKeyword(rec) = 7
    /\ out[1] = <<>>
    /\ FullDistributionWeight

\* C29: after a completed run, a record with has_critical_errors (a critical
\* recommendation in the list, or no https) never holds the maximum score of 100.
CriticalNeverFullScore ==
    (RanNormally /\ has_critical_errors(rec)) => rec.seo_health_percentage < 100

\* ---- views.py: analyze requests for one URL against the stored row ----
\* In this specification rec is the stored row of the URL (NoRow when there is none), pc
\* maps each request to its call frame (position and local variables), out holds the
\* last response of each request and the time of the last page fetch, runs counts the
\* page fetches, edits the submitted requests, now is the clock in hours.
Requests == {1, 2}
MaxRequests == 3
MaxTicks == 3
HoursPerTick == 12

NoRow == [t |-> "norow"]
Idle == [at |-> "idle"]
NoResponse == [result |-> "none", success |-> FALSE, message |-> "none"]

\* the keyword field of a request: a keyword, or '' when the field is left empty
RequestKeywords == {Str(Keyword), Str(<<>>)}

\* ---- the fetched page, as BeautifulSoup presents it ----
\* the text of every tag the extraction looks for, in document order; images by their alt
\* attribute (None without one), links by what analyze_links makes of the href,
\* itemtype attributes by their text
SchemaOrg == <<"h", "t", "t", "p", "s", ":", "/", "/", "s", "c", "h", "e", "m", "a", ".", "o", "r", "g", "/">>

FullPage ==
    [title |-> <<<<"S", "e", "o", " ", "t", "i", "p", "s", " ">>>>,
     meta_description |-> <<<<" ", "A", "l", "l", " ", "s", "e", "o">>>>,
     h1 |-> <<<<"S", "E", "O">>>>,
     h2 |-> <<<<"O", "n", "e">>, <<" ", "s", "e", "o", " ">>>>,
     h3 |-> <<<<"É", "t", "é">>>>,
     p |-> <<<<"s", "e", "o", "s", "e", "o", " ", "a", "_", "1">>, <<" ", "\n">>,
             <<"n", "o", "-", "k", "e", "y">>>>,
     img |-> <<None, Str(<<" ">>), Str(<<"a", "l", "t">>)>>,
     a |-> <<"internal", "external", "internal", "skipped">>,
     itemtype |-> <<SchemaOrg \o Article, <<"x", "/", "T", "h", "i", "n", "g">>,
                    SchemaOrg \o Product, SchemaOrg \o Article>>,
     canonical |-> TRUE, viewport |-> TRUE, elapsed |-> 1000]

\* a page with nothing the extraction looks for
BarePage ==
    [title |-> <<>>, meta_description |-> <<>>, h1 |-> <<>>, h2 |-> <<>>, h3 |-> <<>>,
     p |-> <<>>, img |-> <<>>, a |-> <<>>, itemtype |-> <<>>,
     canonical |-> FALSE, viewport |-> FALSE, elapsed |-> 2500]

Pages == {FullPage, BarePage}

RECURSIVE Lines(_)
Lines(texts) == IF texts = <<>> THEN <<>> ELSE Head(texts) \o <<"\n">> \o Lines(Tail(texts))

\* soup.get_text(): the text nodes of the document
get_text(page) == Lines(page.title) \o Lines(page.h1) \o Lines(page.h2) \o Lines(page.h3)
                  \o Lines(page.p)

\* the characters \w matches in a str pattern: the alphanumeric characters of Unicode
\* and the underscore
WordRanges ==
  <<
    48, 57, 65, 90, 95, 95, 97, 122, 170, 170, 178, 179, 181, 181, 185, 186, 188, 190, 192, 214,
    216, 246, 248, 705, 710, 721, 736, 740, 748, 748, 750, 750, 880, 884, 886, 887, 890, 893,
    895, 895, 902, 902, 904, 906, 908, 908, 910, 929, 931, 1013, 1015, 1153, 1162, 1327, 1329,
    1366, 1369, 1369, 1376, 1416, 1488, 1514, 1519, 1522, 1568, 1610, 1632, 1641, 1646, 1647,
    1649, 1747, 1749, 1749, 1765, 1766, 1774, 1788, 1791, 1791, 1808, 1808, 1810, 1839, 1869,
    1957, 1969, 1969, 1984, 2026, 2036, 2037, 2042, 2042, 2048, 2069, 2074, 2074, 2084, 2084,
    2088, 2088, 2112, 2136, 2144, 2154, 2160, 2183, 2185, 2190, 2208, 2249, 2308, 2361, 2365,
    2365, 2384, 2384, 2392, 2401, 2406, 2415, 2417, 2432, 2437, 2444, 2447, 2448, 2451, 2472,
    2474, 2480, 2482, 2482, 2486, 2489, 2493, 2493, 2510, 2510, 2524, 2525, 2527, 2529, 2534,
    2545, 2548, 2553, 2556, 2556, 2565, 2570, 2575, 2576, 2579, 2600, 2602, 2608, 2610, 2611,
    2613, 2614, 2616, 2617, 2649, 2652, 2654, 2654, 2662, 2671, 2674, 2676, 2693, 2701, 2703,
    2705, 2707, 2728, 2730, 2736, 2738, 2739, 2741, 2745, 2749, 2749, 2768, 2768, 2784, 2785,
    2790, 2799, 2809, 2809, 2821, 2828, 2831, 2832, 2835, 2856, 2858, 2864, 2866, 2867, 2869,
    2873, 2877, 2877, 2908, 2909, 2911, 2913, 2918, 2927, 2929, 2935, 2947, 2947, 2949, 2954,
    2958, 2960, 2962, 2965, 2969, 2970, 2972, 2972, 2974, 2975, 2979, 2980, 2984, 2986, 2990,
    3001, 3024, 3024, 3046, 3058, 3077, 3084, 3086, 3088, 3090, 3112, 3114, 3129, 3133, 3133,
    3160, 3162, 3165, 3165, 3168, 3169, 3174, 3183, 3192, 3198, 3200, 3200, 3205, 3212, 3214,
    3216, 3218, 3240, 3242, 3251, 3253, 3257, 3261, 3261, 3293, 3294, 3296, 3297, 3302, 3311,
    3313, 3314, 3332, 3340, 3342, 3344, 3346, 3386, 3389, 3389, 3406, 3406, 3412, 3414, 3416,
    3425, 3430, 3448, 3450, 3455, 3461, 3478, 3482, 3505, 3507, 3515, 3517, 3517, 3520, 3526,
    3558, 3567, 3585, 3632, 3634, 3635, 3648, 3654, 3664, 3673, 3713, 3714, 3716, 3716, 3718,
    3722, 3724, 3747, 3749, 3749, 3751, 3760, 3762, 3763, 3773, 3773, 3776, 3780, 3782, 3782,
    3792, 3801, 3804, 3807, 3840, 3840, 3872, 3891, 3904, 3911, 3913, 3948, 3976, 3980, 4096,
    4138, 4159, 4169, 4176, 4181, 4186, 4189, 4193, 4193, 4197, 4198, 4206, 4208, 4213, 4225,
    4238, 4238, 4240, 4249, 4256, 4293, 4295, 4295, 4301, 4301, 4304, 4346, 4348, 4680, 4682,
    4685, 4688, 4694, 4696, 4696, 4698, 4701, 4704, 4744, 4746, 4749, 4752, 4784, 4786, 4789,
    4792, 4798, 4800, 4800, 4802, 4805, 4808, 4822, 4824, 4880, 4882, 4885, 4888, 4954, 4969,
    4988, 4992, 5007, 5024, 5109, 5112, 5117, 5121, 5740, 5743, 5759, 5761, 5786, 5792, 5866,
    5870, 5880, 5888, 5905, 5919, 5937, 5952, 5969, 5984, 5996, 5998, 6000, 6016, 6067, 6103,
    6103, 6108, 6108, 6112, 6121, 6128, 6137, 6160, 6169, 6176, 6264, 6272, 6276, 6279, 6312,
    6314, 6314, 6320, 6389, 6400, 6430, 6470, 6509, 6512, 6516, 6528, 6571, 6576, 6601, 6608,
    6618, 6656, 6678, 6688, 6740, 6784, 6793, 6800, 6809, 6823, 6823, 6917, 6963, 6981, 6988,
    6992, 7001, 7043, 7072, 7086, 7141, 7168, 7203, 7232, 7241, 7245, 7293, 7296, 7304, 7312,
    7354, 7357, 7359, 7401, 7404, 7406, 7411, 7413, 7414, 7418, 7418, 7424, 7615, 7680, 7957,
    7960, 7965, 7968, 8005, 8008, 8013, 8016, 8023, 8025, 8025, 8027, 8027, 8029, 8029, 8031,
    8061, 8064, 8116, 8118, 8124, 8126, 8126, 8130, 8132, 8134, 8140, 8144, 8147, 8150, 8155,
    8160, 8172, 8178, 8180, 8182, 8188, 8304, 8305, 8308, 8313, 8319, 8329, 8336, 8348, 8450,
    8450, 8455, 8455, 8458, 8467, 8469, 8469, 8473, 8477, 8484, 8484, 8486, 8486, 8488, 8488,
    8490, 8493, 8495, 8505, 8508, 8511, 8517, 8521, 8526, 8526, 8528, 8585, 9312, 9371, 9450,
    9471, 10102, 10131, 11264, 11492, 11499, 11502, 11506, 11507, 11517, 11517, 11520, 11557,
    11559, 11559, 11565, 11565, 11568, 11623, 11631, 11631, 11648, 11670, 11680, 11686, 11688,
    11694, 11696, 11702, 11704, 11710, 11712, 11718, 11720, 11726, 11728, 11734, 11736, 11742,
    11823, 11823, 12293, 12295, 12321, 12329, 12337, 12341, 12344, 12348, 12353, 12438, 12445,
    12447, 12449, 12538, 12540, 12543, 12549, 12591, 12593, 12686, 12690, 12693, 12704, 12735,
    12784, 12799, 12832, 12841, 12872, 12879, 12881, 12895, 12928, 12937, 12977, 12991, 13312,
    19903, 19968, 42124, 42192, 42237, 42240, 42508, 42512, 42539, 42560, 42606, 42623, 42653,
    42656, 42735, 42775, 42783, 42786, 42888, 42891, 42954, 42960, 42961, 42963, 42963, 42965,
    42969, 42994, 43009, 43011, 43013, 43015, 43018, 43020, 43042, 43056, 43061, 43072, 43123,
    43138, 43187, 43216, 43225, 43250, 43255, 43259, 43259, 43261, 43262, 43264, 43301, 43312,
    43334, 43360, 43388, 43396, 43442, 43471, 43481, 43488, 43492, 43494, 43518, 43520, 43560,
    43584, 43586, 43588, 43595, 43600, 43609, 43616, 43638, 43642, 43642, 43646, 43695, 43697,
    43697, 43701, 43702, 43705, 43709, 43712, 43712, 43714, 43714, 43739, 43741, 43744, 43754,
    43762, 43764, 43777, 43782, 43785, 43790, 43793, 43798, 43808, 43814, 43816, 43822, 43824,
    43866, 43868, 43881, 43888, 44002, 44016, 44025, 44032, 55203, 55216, 55238, 55243, 55291,
    63744, 64109, 64112, 64217, 64256, 64262, 64275, 64279, 64285, 64285, 64287, 64296, 64298,
    64310, 64312, 64316, 64318, 64318, 64320, 64321, 64323, 64324, 64326, 64433, 64467, 64829,
    64848, 64911, 64914, 64967, 65008, 65019, 65136, 65140, 65142, 65276, 65296, 65305, 65313,
    65338, 65345, 65370, 65382, 65470, 65474, 65479, 65482, 65487, 65490, 65495, 65498, 65500,
    65536, 65547, 65549, 65574, 65576, 65594, 65596, 65597, 65599, 65613, 65616, 65629, 65664,
    65786, 65799, 65843, 65856, 65912, 65930, 65931, 66176, 66204, 66208, 66256, 66273, 66299,
    66304, 66339, 66349, 66378, 66384, 66421, 66432, 66461, 66464, 66499, 66504, 66511, 66513,
    66517, 66560, 66717, 66720, 66729, 66736, 66771, 66776, 66811, 66816, 66855, 66864, 66915,
    66928, 66938, 66940, 66954, 66956, 66962, 66964, 66965, 66967, 66977, 66979, 66993, 66995,
    67001, 67003, 67004, 67072, 67382, 67392, 67413, 67424, 67431, 67456, 67461, 67463, 67504,
    67506, 67514, 67584, 67589, 67592, 67592, 67594, 67637, 67639, 67640, 67644, 67644, 67647,
    67669, 67672, 67702, 67705, 67742, 67751, 67759, 67808, 67826, 67828, 67829, 67835, 67867,
    67872, 67897, 67968, 68023, 68028, 68047, 68050, 68096, 68112, 68115, 68117, 68119, 68121,
    68149, 68160, 68168, 68192, 68222, 68224, 68255, 68288, 68295, 68297, 68324, 68331, 68335,
    68352, 68405, 68416, 68437, 68440, 68466, 68472, 68497, 68521, 68527, 68608, 68680, 68736,
    68786, 68800, 68850, 68858, 68899, 68912, 68921, 69216, 69246, 69248, 69289, 69296, 69297,
    69376, 69415, 69424, 69445, 69457, 69460, 69488, 69505, 69552, 69579, 69600, 69622, 69635,
    69687, 69714, 69743, 69745, 69746, 69749, 69749, 69763, 69807, 69840, 69864, 69872, 69881,
    69891, 69926, 69942, 69951, 69956, 69956, 69959, 69959, 69968, 70002, 70006, 70006, 70019,
    70066, 70081, 70084, 70096, 70106, 70108, 70108, 70113, 70132, 70144, 70161, 70163, 70187,
    70272, 70278, 70280, 70280, 70282, 70285, 70287, 70301, 70303, 70312, 70320, 70366, 70384,
    70393, 70405, 70412, 70415, 70416, 70419, 70440, 70442, 70448, 70450, 70451, 70453, 70457,
    70461, 70461, 70480, 70480, 70493, 70497, 70656, 70708, 70727, 70730, 70736, 70745, 70751,
    70753, 70784, 70831, 70852, 70853, 70855, 70855, 70864, 70873, 71040, 71086, 71128, 71131,
    71168, 71215, 71236, 71236, 71248, 71257, 71296, 71338, 71352, 71352, 71360, 71369, 71424,
    71450, 71472, 71483, 71488, 71494, 71680, 71723, 71840, 71922, 71935, 71942, 71945, 71945,
    71948, 71955, 71957, 71958, 71960, 71983, 71999, 71999, 72001, 72001, 72016, 72025, 72096,
    72103, 72106, 72144, 72161, 72161, 72163, 72163, 72192, 72192, 72203, 72242, 72250, 72250,
    72272, 72272, 72284, 72329, 72349, 72349, 72368, 72440, 72704, 72712, 72714, 72750, 72768,
    72768, 72784, 72812, 72818, 72847, 72960, 72966, 72968, 72969, 72971, 73008, 73030, 73030,
    73040, 73049, 73056, 73061, 73063, 73064, 73066, 73097, 73112, 73112, 73120, 73129, 73440,
    73458, 73648, 73648, 73664, 73684, 73728, 74649, 74752, 74862, 74880, 75075, 77712, 77808,
    77824, 78894, 82944, 83526, 92160, 92728, 92736, 92766, 92768, 92777, 92784, 92862, 92864,
    92873, 92880, 92909, 92928, 92975, 92992, 92995, 93008, 93017, 93019, 93025, 93027, 93047,
    93053, 93071, 93760, 93846, 93952, 94026, 94032, 94032, 94099, 94111, 94176, 94177, 94179,
    94179, 94208, 100343, 100352, 101589, 101632, 101640, 110576, 110579, 110581, 110587,
    110589, 110590, 110592, 110882, 110928, 110930, 110948, 110951, 110960, 111355, 113664,
    113770, 113776, 113788, 113792, 113800, 113808, 113817, 119520, 119539, 119648, 119672,
    119808, 119892, 119894, 119964, 119966, 119967, 119970, 119970, 119973, 119974, 119977,
    119980, 119982, 119993, 119995, 119995, 119997, 120003, 120005, 120069, 120071, 120074,
    120077, 120084, 120086, 120092, 120094, 120121, 120123, 120126, 120128, 120132, 120134,
    120134, 120138, 120144, 120146, 120485, 120488, 120512, 120514, 120538, 120540, 120570,
    120572, 120596, 120598, 120628, 120630, 120654, 120656, 120686, 120688, 120712, 120714,
    120744, 120746, 120770, 120772, 120779, 120782, 120831, 122624, 122654, 123136, 123180,
    123191, 123197, 123200, 123209, 123214, 123214, 123536, 123565, 123584, 123627, 123632,
    123641, 124896, 124902, 124904, 124907, 124909, 124910, 124912, 124926, 124928, 125124,
    125127, 125135, 125184, 125251, 125259, 125259, 125264, 125273, 126065, 126123, 126125,
    126127, 126129, 126132, 126209, 126253, 126255, 126269, 126464, 126467, 126469, 126495,
    126497, 126498, 126500, 126500, 126503, 126503, 126505, 126514, 126516, 126519, 126521,
    126521, 126523, 126523, 126530, 126530, 126535, 126535, 126537, 126537, 126539, 126539,
    126541, 126543, 126545, 126546, 126548, 126548, 126551, 126551, 126553, 126553, 126555,
    126555, 126557, 126557, 126559, 126559, 126561, 126562, 126564, 126564, 126567, 126570,
    126572, 126578, 126580, 126583, 126585, 126588, 126590, 126590, 126592, 126601, 126603,
    126619, 126625, 126627, 126629, 126633, 126635, 126651, 127232, 127244, 130032, 130041,
    131072, 173791, 173824, 177976, 177984, 178205, 178208, 183969, 183984, 191456, 194560,
    195101, 196608, 201546
  >>
IsWordChar(c) == InRanges(CodePoint(c), WordRanges)

\* len(re.findall(r'\b\w+\b', text)): the maximal runs of word characters
WordCount(text) ==
    Cardinality({i \in 1..Len(text) :
                    IsWordChar(text[i]) /\ (i = 1 \/ ~IsWordChar(text[i - 1]))})

\* str.count: occurrences from the left that do not overlap
RECURSIVE Count(_, _)
Count(text, sub) ==
    IF Len(text) < Len(sub) THEN 0
    ELSE IF SubSeq(text, 1, Len(sub)) = sub
    THEN 1 + Count(SubSeq(text, Len(sub) + 1, Len(text)), sub)
    ELSE Count(Tail(text), sub)

\* [p.get_text().strip() for p in paragraphs if the stripped text is not empty]
RECURSIVE ParagraphData(_)
ParagraphData(texts) ==
    IF texts = <<>> THEN <<>>
    ELSE (IF Strip(Head(texts)) # <<>>
          THEN <<[text |-> Strip(Head(texts)), length |-> Len(Strip(Head(texts)))]>>
          ELSE <<>>) \o ParagraphData(Tail(texts))

\* images without an alt attribute or with a blank one
MissingAlt(page) ==
    Cardinality({i \in 1..Len(page.img) : ~Truthy(page.img[i]) \/ Strip(page.img[i].v) = <<>>})

\* itemtype.split('/')[-1]
RECURSIVE AfterLastSlash(_)
AfterLastSlash(s) ==
    IF \E i \in 1..Len(s) : s[i] = "/" THEN AfterLastSlash(Tail(s)) ELSE s

\* the microdata types of schema.org; the JSON-LD scripts are gone from the soup by then,
\* analyze_content has decomposed every script tag
RECURSIVE SchemaTypes(_)
SchemaTypes(itemtypes) ==
    IF itemtypes = <<>> THEN <<>>
    ELSE (IF Contains(<<"s", "c", "h", "e", "m", "a", ".", "o", "r", "g">>, Head(itemtypes))
          THEN <<AfterLastSlash(Head(itemtypes))>>
          ELSE <<>>) \o SchemaTypes(Tail(itemtypes))

\* the url of the one page the requests are about begins with https://
analyze_basic_elements(data, page) ==
    [data EXCEPT
       !.title = IF page.title # <<>> THEN Str(Strip(page.title[1])) ELSE Str(<<>>),
       !.meta_description = IF page.meta_description # <<>>
                            THEN Str(Strip(page.meta_description[1])) ELSE @,
       !.h1_count = Len(page.h1), !.h2_count = Len(page.h2), !.h3_count = Len(page.h3),
       !.h1_text = IF page.h1 # <<>> THEN Str(Strip(page.h1[1])) ELSE Str(<<>>),
       !.h2_texts = [i \in 1..Len(page.h2) |-> Strip(page.h2[i])],
       !.https = TRUE]

analyze_content(data, page) ==
    [data EXCEPT
       !.word_count = WordCount(Lower(get_text(page))),
       !.keyword_count = IF Truthy(data.keyword)
                         THEN IntVal(Count(Lower(get_text(page)), Lower(data.keyword.v)))
                         ELSE @,
       !.paragraphs = ParagraphData(page.p)]

analyze_technical_seo(data, page) ==
    [data EXCEPT !.has_canonical = page.canonical, !.mobile_friendly = page.viewport,
                 !.page_load_time = Num(page.elapsed)]

analyze_images(data, page) ==
    [data EXCEPT !.images_count = Len(page.img), !.missing_alt_images_count = MissingAlt(page)]

analyze_links(data, page) ==
    [data EXCEPT
       !.internal_links_count = Cardinality({i \in 1..Len(page.a) : page.a[i] = "internal"}),
       !.external_links_count = Cardinality({i \in 1..Len(page.a) : page.a[i] = "external"})]

\* list(set(schema_types)): every type once. The order is the one in which the set of
\* str yields them; it follows the hashes of the strings, which change with the hash
\* seed of the process.
Distinct(types) == {types[i] : i \in 1..Len(types)}
SetOrders(types) ==
    {order \in [1..Cardinality(Distinct(types)) -> Distinct(types)] :
        \A type \in Distinct(types) : \E i \in DOMAIN order : order[i] = type}

\* order is the list the set of the types found yields, one of SetOrders
analyze_schema_markup(data, page, order) ==
    [data EXCEPT !.has_schema_markup = SchemaTypes(page.itemtype) # <<>>,
                 !.schema_types = order]

\* perform_seo_analysis on a page that was fetched: the six steps on the instance
Extract(data, page, order) ==
    analyze_schema_markup(analyze_links(analyze_images(analyze_technical_seo(
        analyze_content(analyze_basic_elements(data, page), page), page), page), page),
        page, order)

\* the signals of the stored record have been extracted and saved
Analyzed(row) == row # NoRow /\ ~IsNone(row.data.title)

\* SEOAnalysis.objects.create(url=url, keyword=keyword): the model's save() runs on the
\* new record; created_at (auto_now_add) and updated_at (auto_now) are the clock
CreateRow(pk, keyword, clock) ==
    [t |-> "row", pk |-> pk, data |-> save([DefaultRecord EXCEPT !.keyword = keyword], clock),
     created_at |-> clock, updated_at |-> clock]

\* analysis.save(), first statement: UPDATE ... WHERE id = analysis.pk matches the row of
\* the instance
UpdateMatches(analysis, row) == row # NoRow /\ row.pk = analysis.pk

\* the row after that UPDATE: created_at is the instance's
UpdateRow(analysis, clock) ==
    [t |-> "row", pk |-> analysis.pk, data |-> save(analysis.data, clock),
     created_at |-> analysis.created_at, updated_at |-> clock]

\* analysis.save(), second statement, after an UPDATE that matched no row: INSERT of
\* the instance with its pk, and auto_now_add sets created_at
InsertRow(analysis, clock) ==
    [t |-> "row", pk |-> analysis.pk, data |-> save(analysis.data, clock),
     created_at |-> clock, updated_at |-> clock]

\* the INSERT meets a row that has been stored since: the url is unique (and so is the
\* pk), so it raises IntegrityError
InsertRaises(row) == row # NoRow

\* the table after analysis.delete(): DELETE ... WHERE id = analysis.pk
DeleteRow(pk, row) == IF row # NoRow /\ row.pk = pk THEN NoRow ELSE row

\* AnalyzeURLView.should_reanalyze: (datetime.now() - created_at).total_seconds() > 86400
should_reanalyze(row, clock) == (clock - row.created_at) * 3600 > 86400

\* views.py reads forms.URLInput in the class body of SEOAnalysisForm (line 32); line 15
\* imports ModelForm, URLField and CharField from django.forms and nothing binds the name
\* forms. Loading the module (urls.py imports it) raises NameError, so every request
\* ends in that error and no handler below ever runs.
FormsName == "unbound"

InitViews ==
    /\ rec = NoRow
    /\ pc = [q \in Requests |-> Idle]
    /\ runs = 0
    /\ edits = 0
    /\ now = Now0
    /\ out = [forms |-> FormsName, responses |-> [q \in Requests |-> NoResponse],
              fetched_at |-> None, next_pk |-> 1]

\* the responses once request q has been answered
Answer(o, q, result, success) ==
    [o EXCEPT !.responses[q] = [result |-> result, success |-> success, message |-> result]]

Respond(q, result, success) == out' = Answer(out, q, result, success)

\* a POST arrives: the module is loaded, then SEOAnalysisForm.is_valid() runs; the
\* ModelForm checks the unique url of the model, so a URL that is already stored fails
\* validation
Submit(q, kind) ==
    /\ pc[q] = Idle
    /\ edits < MaxRequests
    /\ edits' = edits + 1
    /\ IF out.forms = "unbound"
       THEN /\ pc' = pc
            /\ Respond(q, "NameError", FALSE)
       ELSE IF rec # NoRow
       THEN /\ pc' = pc
            /\ Respond(q, IF kind = "single" THEN "form_invalid" ELSE "invalid_url", FALSE)
       ELSE /\ \E keyword \in RequestKeywords :
                  pc' = [pc EXCEPT ![q] = [at |-> "valid", kind |-> kind, keyword |-> keyword]]
            /\ out' = out
    /\ UNCHANGED <<rec, runs, now>>

\* the instance form_valid goes on with: the keyword of the request replaces another one
WithKeyword(row, kind, keyword) ==
    IF kind = "single" /\ Truthy(keyword) /\ row.data.keyword # keyword
    THEN [row EXCEPT !.data.keyword = keyword]
    ELSE row

\* what form_valid and BulkAnalysisView.post do with the pair get_or_create returns: the
\* page is fetched when the row was created or should_reanalyze holds; otherwise the
\* single path takes the 'using existing analysis' branch and the bulk path appends its
\* result. o is the bookkeeping after get_or_create.
Proceed(q, row, created, o) ==
    IF created \/ should_reanalyze(row, now)
    THEN /\ pc' = [pc EXCEPT ![q] =
                     [at |-> "fetch", kind |-> pc[q].kind, created |-> created,
                      analysis |-> WithKeyword(row, pc[q].kind, pc[q].keyword)]]
         /\ out' = o
    ELSE IF pc[q].kind = "single"
    THEN /\ pc' = [pc EXCEPT ![q] = [at |-> "existing", kind |-> "single", analysis |-> row]]
         /\ out' = o
    ELSE /\ pc' = [pc EXCEPT ![q] = Idle]
         /\ out' = Answer(o, q, "bulk_result", TRUE)

\* QuerySet.get_or_create, first statement: self.get(url=url), a SELECT. A row that is
\* found is returned with created False; without one the call goes on to create it.
GetOrCreate(q) ==
    /\ pc[q].at = "valid"
    /\ IF rec # NoRow
       THEN Proceed(q, rec, FALSE, out)
       ELSE /\ pc' = [pc EXCEPT ![q] = [at |-> "create", kind |-> pc[q].kind,
                                        keyword |-> pc[q].keyword]]
            /\ out' = out
    /\ UNCHANGED <<rec, runs, edits, now>>

\* get_or_create, self.create(url=url, keyword=keyword) inside transaction.atomic(): the
\* INSERT stores the row, returned with created True; where another request has stored
\* the url since the SELECT, the unique url raises IntegrityError and the call goes on
\* to read the row again.
Create(q) ==
    /\ pc[q].at = "create"
    /\ IF rec = NoRow
       THEN /\ rec' = CreateRow(out.next_pk, pc[q].keyword, now)
            /\ Proceed(q, rec', TRUE, [out EXCEPT !.next_pk = @ + 1])
       ELSE /\ rec' = rec
            /\ pc' = [pc EXCEPT ![q] = [at |-> "get_again", kind |-> pc[q].kind,
                                        keyword |-> pc[q].keyword]]
            /\ out' = out
    /\ UNCHANGED <<runs, edits, now>>

\* get_or_create, except IntegrityError: self.get(url=url) once more. The row is
\* returned with created False; where it has been deleted meanwhile the IntegrityError
\* is raised again and ends in the handler of line 139 (bulk: line 526).
GetAgain(q) ==
    /\ pc[q].at = "get_again"
    /\ IF rec # NoRow
       THEN Proceed(q, rec, FALSE, out)
       ELSE /\ pc' = [pc EXCEPT ![q] = Idle]
            /\ Respond(q, IF pc[q].kind = "single" THEN "error" ELSE "bulk_error", FALSE)
    /\ UNCHANGED <<rec, runs, edits, now>>

\* messages.info('Using existing analysis (updated recently)') and the redirect to the record
RedirectExisting(q) ==
    /\ pc[q].at = "existing"
    /\ pc' = [pc EXCEPT ![q] = Idle]
    /\ Respond(q, "existing", TRUE)
    /\ UNCHANGED <<rec, runs, edits, now>>

\* the frame of request q once perform_seo_analysis has returned
Fetched(q, ok, analysis) ==
    [pc EXCEPT ![q] = [at |-> "fetched", kind |-> pc[q].kind, created |-> pc[q].created,
                       success |-> ok, analysis |-> analysis]]

\* perform_seo_analysis: the page is fetched; on success the signals are written to the
\* instance in memory, on a failed request the call returns False
Fetch(q) ==
    /\ pc[q].at = "fetch"
    /\ \/ pc' = Fetched(q, FALSE, pc[q].analysis)
       \/ \E page \in Pages : \E order \in SetOrders(SchemaTypes(page.itemtype)) :
             pc' = Fetched(q, TRUE,
                           [pc[q].analysis EXCEPT !.data = Extract(@, page, order)])
    /\ runs' = runs + 1
    /\ out' = [out EXCEPT !.fetched_at = IntVal(now)]
    /\ UNCHANGED <<rec, edits, now>>

\* the frame of request q inside analysis.save(), once its UPDATE has matched no row
Saving(q) ==
    [pc EXCEPT ![q] = [at |-> "insert", kind |-> pc[q].kind, created |-> pc[q].created,
                       analysis |-> pc[q].analysis]]

\* what form_valid does with the outcome. After a failed fetch it deletes the row it
\* created. After a successful one analysis.save() runs the calculations and issues its
\* UPDATE; Model.save opens no transaction, so where the UPDATE matches no row the
\* INSERT is a statement of its own (SaveInsert) and other requests run in between.
FinishSingle(q) ==
    /\ pc[q].at = "fetched"
    /\ pc[q].kind = "single"
    /\ IF ~pc[q].success
       THEN /\ rec' = IF pc[q].created THEN DeleteRow(pc[q].analysis.pk, rec) ELSE rec
            /\ pc' = [pc EXCEPT ![q] = Idle]
            /\ Respond(q, "failed", FALSE)
       ELSE IF UpdateMatches(pc[q].analysis, rec)
       THEN /\ rec' = UpdateRow(pc[q].analysis, now)
            /\ pc' = [pc EXCEPT ![q] = Idle]
            /\ Respond(q, "analyzed", TRUE)
       ELSE /\ rec' = rec
            /\ pc' = Saving(q)
            /\ out' = out
    /\ UNCHANGED <<runs, edits, now>>

\* what BulkAnalysisView.post does with the outcome: analysis.save() on success only,
\* and a result with 'success': True whatever the fetch gave
FinishBulk(q) ==
    /\ pc[q].at = "fetched"
    /\ pc[q].kind = "bulk"
    /\ IF ~pc[q].success
       THEN /\ rec' = rec
            /\ pc' = [pc EXCEPT ![q] = Idle]
            /\ Respond(q, "bulk_result", TRUE)
       ELSE IF UpdateMatches(pc[q].analysis, rec)
       THEN /\ rec' = UpdateRow(pc[q].analysis, now)
            /\ pc' = [pc EXCEPT ![q] = Idle]
            /\ Respond(q, "bulk_result", TRUE)
       ELSE /\ rec' = rec
            /\ pc' = Saving(q)
            /\ out' = out
    /\ UNCHANGED <<runs, edits, now>>

\* analysis.save(), the INSERT after an UPDATE that matched no row: the row is stored
\* again, or IntegrityError ends in the handler of line 139 (bulk: line 526)
SaveInsert(q) ==
    /\ pc[q].at = "insert"
    /\ pc' = [pc EXCEPT ![q] = Idle]
    /\ IF InsertRaises(rec)
       THEN /\ rec' = rec
            /\ Respond(q, IF pc[q].kind = "single" THEN "error" ELSE "bulk_error", FALSE)
       ELSE /\ rec' = InsertRow(pc[q].analysis, now)
            /\ Respond(q, IF pc[q].kind = "single" THEN "analyzed" ELSE "bulk_result", TRUE)
    /\ UNCHANGED <<runs, edits, now>>

\* DeleteAnalysisView.get_redirect_url ends in super().get_redirect_url(*args, **kwargs)
\* with pk among the kwargs; the pattern 'seo_analyzer:analysis_list' takes no argument
\* (urls.py), so reverse raises NoReverseMatch outside the try: the request ends in that
\* error, with the message the handler has left before
RespondNoReverse(q, message) ==
    out' = [out EXCEPT !.responses[q] =
                [result |-> "NoReverseMatch", success |-> FALSE, message |-> message]]

\* a request to delete/<pk>/: get_object_or_404 reads the row of that pk; without one
\* Http404 is caught and messages.error reports the failure
DeleteLookup(q) ==
    /\ pc[q] = Idle
    /\ edits < MaxRequests
    /\ edits' = edits + 1
    /\ \E pk \in 1..MaxRequests :
          /\ pk < out.next_pk \/ pk = 1
          /\ IF out.forms = "unbound"
             THEN pc' = pc /\ Respond(q, "NameError", FALSE)
             ELSE IF rec # NoRow /\ rec.pk = pk
             THEN pc' = [pc EXCEPT ![q] = [at |-> "delete", analysis |-> rec]] /\ out' = out
             ELSE pc' = pc /\ RespondNoReverse(q, "delete_failed")
    /\ UNCHANGED <<rec, runs, now>>

\* analysis.delete() on the instance that was read, whether its row is still there or
\* not, and messages.success
Delete(q) ==
    /\ pc[q].at = "delete"
    /\ rec' = DeleteRow(pc[q].analysis.pk, rec)
    /\ pc' = [pc EXCEPT ![q] = Idle]
    /\ RespondNoReverse(q, "deleted")
    /\ UNCHANGED <<runs, edits, now>>

\* time passes between requests
Tick ==
    /\ \A q \in Requests : pc[q] = Idle
    /\ now < Now0 + MaxTicks * HoursPerTick
    /\ now' = now + HoursPerTick
    /\ UNCHANGED <<rec, pc, runs, edits, out>>

NextViews ==
    \/ \E q \in Requests : Submit(q, "single")
    \/ \E q \in Requests : Submit(q, "bulk")
    \/ \E q \in Requests : GetOrCreate(q)
    \/ \E q \in Requests : Create(q)
    \/ \E q \in Requests : GetAgain(q)
    \/ \E q \in Requests : RedirectExisting(q)
    \/ \E q \in Requests : Fetch(q)
    \/ \E q \in Requests : FinishSingle(q)
    \/ \E q \in Requests : FinishBulk(q)
    \/ \E q \in Requests : SaveInsert(q)
    \/ \E q \in Requests : DeleteLookup(q)
    \/ \E q \in Requests : Delete(q)
    \/ Tick

SpecViews == InitViews /\ [][NextViews]_vars

\* no request gets past the loading of views.py: no row is ever stored, no page is ever
\* fetched, no request is ever inside a handler and every answer is the NameError
NoHandlerRuns ==
    /\ rec = NoRow
    /\ runs = 0
    /\ \A q \in Requests : pc[q] = Idle /\ out.responses[q].result \in {"none", "NameError"}

\* re-analysis does not restart the age should_reanalyze measures: a row created 36
\* hours ago and saved just now is still due
ReanalysisKeepsAge ==
    should_reanalyze(UpdateRow(CreateRow(1, Str(Keyword), Now0), Now0 + 36), Now0 + 36)

\* C26: for any sequence of requests the URL is fetched at most once per 24-hour window:
\* a page fetch is never followed by another one less than 24 hours later.
FetchedOncePerDay ==
    [][(runs' = runs + 1 /\ ~IsNone(out.fetched_at))
          => (now - out.fetched_at.n) * 3600 >= 86400]_vars

\* request q returns after a failed fetch
FailedReturn(q) == pc[q].at = "fetched" /\ ~pc[q].success /\ pc'[q] = Idle

\* the row request q created is not in the table after the step
CreatedRowGone(q) == rec' = NoRow \/ rec'.pk # pc[q].analysis.pk

\* C27: on the single-URL and on the bulk path alike, a failed fetch for a URL the
\* request itself created leaves no row of that request behind and is not reported as a
\* success; a failed fetch for a URL that was already stored leaves the row as it was.
FailedFetchLeavesNothing ==
    [][\A q \in Requests :
          FailedReturn(q) => IF pc[q].created
                             THEN CreatedRowGone(q) /\ ~out'.responses[q].success
                             ELSE rec' = rec]_vars

\* C28: under any interleaving of two requests, a request on the 'using existing
\* analysis' branch is about to redirect to a record that exists and whose signals have
\* been extracted and saved.
ExistingBranchSeesAnalyzed ==
    \A q \in Requests : pc[q].at = "existing" => Analyzed(rec)

\* the cases C26, C27 and C28 are about: a page has been fetched, a request holds the
\* outcome of a fetch, a request is on the 'using existing analysis' branch
SomeFetch == runs > 0
SomeFetchOutcome == \E q \in Requests : pc[q].at = "fetched"
SomeExistingBranch == \E q \in Requests : pc[q].at = "existing"

====
